---- MODULE Spec2Model ----
(***************************************************************************)
(* Leader Hotkeys for Obsidian: the keymap index (Trie), the matching      *)
(* state machine (MatchMachine) and the registration state machine         *)
(* (RegisterMachine), the keydown handler (MatchHandler), the registration *)
(* dialog (SequenceModal), the settings store (LeaderSettingsTab and        *)
(* LeaderHotkeys.persistKeymaps) and plugin loading (LeaderHotkeys.onload), *)
(* modelled from src/unnamed/part_003.  Trie and MatchMachine are the same, *)
(* line for line, in src/src/main.ts.                                      *)
(***************************************************************************)
EXTENDS Integers, Sequences, FiniteSets, TLC

VARIABLES
    hotkeys,        \* the KeyMap list handed to Trie.from / addAll so far
    trie,           \* Trie: path of edge labels -> TrieNode
    pc,             \* "addAll" | "threw" | "matching"
    currentState,   \* MatchMachine.currentState
    currentSequence,\* MatchMachine.currentSequence
    currentMatches, \* MatchMachine.currentMatches
    typed,          \* presses given to MatchMachine.advance since construction
    returned,       \* the state each of those advance calls returned
    regState,       \* RegisterMachine.currentState
    regSequence,    \* RegisterMachine.currentSequence
    regTyped,       \* presses given to RegisterMachine.advance since construction
    regReturned,    \* the state each of those advance calls returned
    handled,        \* what MatchHandler.handleKeyDown did on each keydown
    emitted,        \* what each call of MatchHandler.emit did
    pressIn,        \* a KeyPress value
    pressClass,     \* the result of press.classification(), "" before the call
    pressHash,      \* the result of press.serialize(), "" before the call
    settings,       \* LeaderHotkeys.settings: Undefined or [hotkeys |-> list]
    rows,           \* the list the settings tab last displayed
    saves,          \* the lists of the saveData promises not settled yet
    modal,          \* <<>> or <<commandId>> of the open SequenceModal
    lastOp,         \* what the last step of the settings store did
    issued,         \* number of persistKeymaps calls so far
    custom,         \* a CustomCommand descriptor of the host
    savedSettings,  \* what loadData() resolves to
    onload,         \* position of LeaderHotkeys.onload
    matchHandler    \* whether LeaderHotkeys.matchHandler has been assigned

trieVars == <<hotkeys, trie, pc>>
matchVars == <<currentState, currentSequence, currentMatches, typed, returned>>
regVars == <<regState, regSequence, regTyped, regReturned>>
handlerVars == <<handled, emitted>>
pureVars == <<pressIn, pressClass, pressHash, custom>>
storeVars == <<settings, rows, saves, modal, lastOp, issued>>
loadVars == <<savedSettings, onload, matchHandler>>
vars == <<hotkeys, trie, pc, currentState, currentSequence, currentMatches,
          typed, returned, regState, regSequence, regTyped, regReturned,
          handled, emitted, pressIn, pressClass, pressHash,
          settings, rows, saves, modal, lastOp, issued, custom,
          savedSettings, onload, matchHandler>>

\* ---------------------------------------------------------------- bounds
MaxKeymaps == 2
MaxTyped == 4
MaxRegTyped == 5
MaxModalTyped == 3
MaxIssued == 2

\* ---------------------------------------------------------------- helpers
Range(s) == {s[i] : i \in 1..Len(s)}
Pop(s) == IF Len(s) = 0 THEN s ELSE SubSeq(s, 1, Len(s) - 1)
IsPrefix(s, t) == Len(s) <= Len(t) /\ SubSeq(t, 1, Len(s)) = s

\* Optional<T>: T | undefined | null
Undefined == [undefined |-> TRUE]
Null == [null |-> TRUE]

\* ---------------------------------------------------------------- KeyPress
PressType == {"NoKey", "SpecialKey", "NormalKey"}

KeyPress(key, shift, alt, ctrl, meta) ==
    [key |-> key, shift |-> shift, alt |-> alt, ctrl |-> ctrl, meta |-> meta]

KeyPress_ctrl(key) == KeyPress(key, FALSE, FALSE, TRUE, FALSE)
KeyPress_shift(key) == KeyPress(key, TRUE, FALSE, FALSE, FALSE)
KeyPress_just(key) == KeyPress(key, FALSE, FALSE, FALSE, FALSE)
KeyPress_ctrlAlt(key) == KeyPress(key, FALSE, TRUE, TRUE, FALSE)

\* The fields of a KeyboardEvent that KeyPress.fromEvent reads.
KeyboardEvent(key, shiftKey, altKey, ctrlKey, metaKey) ==
    [key |-> key, shiftKey |-> shiftKey, altKey |-> altKey,
     ctrlKey |-> ctrlKey, metaKey |-> metaKey]

fromEvent(event) ==
    KeyPress(event.key, event.shiftKey, event.altKey, event.ctrlKey, event.metaKey)

\* A CustomCommand of the host: a key and the names of the modifiers held.
CustomCommand(key, modifiers) == [key |-> key, modifiers |-> modifiers]

\* KeyPress.fromCustom: the constructor takes (key, shift, alt, ctrl, meta)
\* and is given (key, shift, ctrl, alt, meta).
fromCustom(binding) ==
    LET shift == "Shift" \in binding.modifiers
        ctrl == "Ctrl" \in binding.modifiers
        alt == "Alt" \in binding.modifiers
        meta == "Meta" \in binding.modifiers
    IN KeyPress(binding.key, shift, ctrl, alt, meta)

\* A key that is null or undefined rather than a string.
NullKey == "<null>"
UndefinedKey == "<undefined>"

\* `${this.key}` in a template literal.
keyString(key) ==
    IF key = NullKey THEN "null"
    ELSE IF key = UndefinedKey THEN "undefined" ELSE key

\* The two non-ASCII glyphs of the source are written by their code points.
text(press) ==
    LET metaRepr == IF press.meta THEN "U+2318 + " ELSE ""
        altRepr == IF press.alt THEN "Alt + " ELSE ""
        ctrlRepr == IF press.ctrl THEN "Ctrl + " ELSE ""
        shiftRepr == IF press.shift THEN "U+21E7 + " ELSE ""
    IN metaRepr \o ctrlRepr \o altRepr \o shiftRepr \o keyString(press.key)

serialize(press) == text(press)

\* classification that takes AltGraph for a normal key.
classificationWithoutAltGraph(press) ==
    IF press.key \in {NullKey, UndefinedKey, "Alt", "Control", "Shift", "Meta"}
    THEN "NoKey"
    ELSE IF press.key \in {"Enter", "Escape", "Backspace"}
         THEN "SpecialKey"
         ELSE "NormalKey"

classification(press) ==
    IF press.key \in {NullKey, UndefinedKey,
                      "Alt", "Control", "Shift", "Meta", "AltGraph"}
    THEN "NoKey"
    ELSE IF press.key \in {"Enter", "Escape", "Backspace"}
         THEN "SpecialKey"
         ELSE "NormalKey"

\* ---------------------------------------------------------------- KeyMap
KeyMap(commandID, sequence) == [commandID |-> commandID, sequence |-> sequence]

\* ---------------------------------------------------------------- TrieNode
\* A node is named by the path of edge labels from the root; `children`
\* keeps the labels in Map insertion order.
NewTrieNode == [children |-> <<>>, value |-> Undefined]

child(t, node, key) ==
    IF key \in Range(t[node].children) THEN <<Append(node, key)>> ELSE <<>>

addChild(t, node, key) ==
    LET path == Append(node, key)
        withChild == IF path \in DOMAIN t THEN t ELSE t @@ (path :> NewTrieNode)
    IN [withChild EXCEPT ![node] =
            [value |-> Null,
             children |-> IF key \in Range(@.children)
                          THEN @.children
                          ELSE Append(@.children, key)]]

isLeaf(t, node) == Len(t[node].children) = 0

RECURSIVE leaves(_, _)
RECURSIVE leavesOfChildren(_, _, _)
leavesOfChildren(t, node, i) ==
    IF i > Len(t[node].children)
    THEN <<>>
    ELSE leaves(t, Append(node, t[node].children[i]))
         \o leavesOfChildren(t, node, i + 1)

leaves(t, node) ==
    IF isLeaf(t, node) THEN <<node>> ELSE leavesOfChildren(t, node, 1)

leafValues(t, node) ==
    LET ls == leaves(t, node) IN [i \in 1..Len(ls) |-> t[ls[i]].value]

setValue(t, node, value) == [t EXCEPT ![node].value = value]

\* ---------------------------------------------------------------- Trie
NewTrie == (<<>> :> NewTrieNode)

RECURSIVE addWalk(_, _, _, _)
addWalk(t, lastSeenNode, composite, i) ==
    IF i > Len(composite)
    THEN [trie |-> t, lastSeenNode |-> lastSeenNode]
    ELSE LET key == serialize(composite[i])
         IN addWalk(addChild(t, lastSeenNode, key),
                    Append(lastSeenNode, key), composite, i + 1)

\* Trie.add with the duplicate test written as a comparison with the inserted
\* item instead of a test for any earlier value.
addRejectsSameItemOnly(t, composite) ==
    LET walked == addWalk(t, <<>>, composite.sequence, 1)
        lastSeenNode == walked.lastSeenNode
    IN IF walked.trie[lastSeenNode].value = composite
       THEN [trie |-> walked.trie, threw |-> TRUE]
       ELSE [trie |-> setValue(walked.trie, lastSeenNode, composite),
             threw |-> FALSE]

\* Trie.add storing the item before it raises.
addReplacesThenRaises(t, composite) ==
    IF composite = Undefined
    THEN [trie |-> t, threw |-> TRUE]
    ELSE LET walked == addWalk(t, <<>>, composite.sequence, 1)
             lastSeenNode == walked.lastSeenNode
         IN [trie |-> setValue(walked.trie, lastSeenNode, composite),
             threw |-> walked.trie[lastSeenNode].value # Undefined]

\* Trie.add: threw is TRUE when 'Duplicate keymap' is raised, or a TypeError
\* because the item is an empty array slot and cannot be iterated; trie is
\* the index as the call leaves it in either case.
add(t, composite) ==
    IF composite = Undefined
    THEN [trie |-> t, threw |-> TRUE]
    ELSE LET walked == addWalk(t, <<>>, composite.sequence, 1)
             lastSeenNode == walked.lastSeenNode
         IN IF walked.trie[lastSeenNode].value # Undefined
            THEN [trie |-> walked.trie, threw |-> TRUE]
            ELSE [trie |-> setValue(walked.trie, lastSeenNode, composite),
                  threw |-> FALSE]

RECURSIVE addAll(_, _, _)
addAll(t, iter, i) ==
    IF i > Len(iter)
    THEN [trie |-> t, threw |-> FALSE]
    ELSE LET r == add(t, iter[i])
         IN IF r.threw THEN r ELSE addAll(r.trie, iter, i + 1)

TrieFrom(iter) == addAll(NewTrie, iter, 1)

RECURSIVE bestMatchFrom(_, _, _, _)
bestMatchFrom(t, lastNode, sequence, i) ==
    IF i > Len(sequence)
    THEN <<lastNode>>
    ELSE LET c == child(t, lastNode, serialize(sequence[i]))
         IN IF c = <<>> THEN <<>> ELSE bestMatchFrom(t, c[1], sequence, i + 1)

bestMatch(t, sequence) == bestMatchFrom(t, <<>>, sequence, 1)

\* ---------------------------------------------------------------- MatchMachine
MatchType == {"NoMatch", "PartialMatch", "FullMatch"}

MatchStates == {"NoMatch", "StartedMatch", "RetainedMatch", "ImprovedMatch",
                "SuccessMatch", "InvalidMatch"}

\* classify without the isLeaf branch.
classifyWithoutLeafTest(t, best) ==
    IF best = <<>> THEN "NoMatch" ELSE "PartialMatch"

\* classify taking every node found for a full match.
classifyTakesPrefixForFull(t, best) ==
    IF best = <<>> THEN "NoMatch" ELSE "FullMatch"

classify(t, best) ==
    IF best = <<>>
    THEN "NoMatch"
    ELSE IF isLeaf(t, best[1]) THEN "FullMatch" ELSE "PartialMatch"

NewMatchMachine ==
    [currentState |-> "NoMatch", currentSequence |-> <<>>, currentMatches |-> <<>>]

\* The terminal case resetting the state and the matches but not the sequence.
clearPreviousKeepsSequence(m) ==
    [currentState |-> "NoMatch",
     currentSequence |-> m.currentSequence,
     currentMatches |-> <<>>]

\* The terminal case's three assignments before it calls advance again.
clearPrevious(m) ==
    [currentState |-> "NoMatch", currentSequence |-> <<>>, currentMatches |-> <<>>]

\* The NoMatch case ending the run as invalid instead of staying idle.
startMatchingInvalidates(pushed, matchType, matches) ==
    IF matchType = "NoMatch"
    THEN [currentState |-> "InvalidMatch",
          currentSequence |-> pushed,
          currentMatches |-> matches]
    ELSE IF matchType = "FullMatch"
         THEN [currentState |-> "SuccessMatch",
               currentSequence |-> pushed,
               currentMatches |-> matches]
         ELSE [currentState |-> "StartedMatch",
               currentSequence |-> pushed,
               currentMatches |-> matches]

\* case MatchStates.NoMatch ("Start Matching")
startMatching(pushed, matchType, matches) ==
    IF matchType = "NoMatch"
    THEN [currentState |-> "NoMatch",
          currentSequence |-> Pop(pushed),
          currentMatches |-> matches]
    ELSE IF matchType = "FullMatch"
         THEN [currentState |-> "SuccessMatch",
               currentSequence |-> pushed,
               currentMatches |-> matches]
         ELSE [currentState |-> "StartedMatch",
               currentSequence |-> pushed,
               currentMatches |-> matches]

\* The in-progress case not buffering a press that improves the match.
continueMatchingDropsImprovement(keypress, pushed, matchType, matches) ==
    IF classification(keypress) = "NoKey"
    THEN [currentState |-> "RetainedMatch",
          currentSequence |-> Pop(pushed),
          currentMatches |-> matches]
    ELSE IF matchType = "NoMatch"
         THEN [currentState |-> "InvalidMatch",
               currentSequence |-> pushed,
               currentMatches |-> matches]
         ELSE IF matchType = "FullMatch"
              THEN [currentState |-> "SuccessMatch",
                    currentSequence |-> pushed,
                    currentMatches |-> matches]
              ELSE [currentState |-> "ImprovedMatch",
                    currentSequence |-> Pop(pushed),
                    currentMatches |-> matches]

\* The in-progress case leaving a modifier-only press in the buffer.
continueMatchingKeepsModifier(keypress, pushed, matchType, matches) ==
    IF classification(keypress) = "NoKey"
    THEN [currentState |-> "RetainedMatch",
          currentSequence |-> pushed,
          currentMatches |-> matches]
    ELSE IF matchType = "NoMatch"
         THEN [currentState |-> "InvalidMatch",
               currentSequence |-> pushed,
               currentMatches |-> matches]
         ELSE IF matchType = "FullMatch"
              THEN [currentState |-> "SuccessMatch",
                    currentSequence |-> pushed,
                    currentMatches |-> matches]
              ELSE [currentState |-> "ImprovedMatch",
                    currentSequence |-> pushed,
                    currentMatches |-> matches]

\* case StartedMatch, RetainedMatch, ImprovedMatch ("Continue / Finish Matching")
continueMatching(keypress, pushed, matchType, matches) ==
    IF classification(keypress) = "NoKey"
    THEN [currentState |-> "RetainedMatch",
          currentSequence |-> Pop(pushed),
          currentMatches |-> matches]
    ELSE IF matchType = "NoMatch"
         THEN [currentState |-> "InvalidMatch",
               currentSequence |-> pushed,
               currentMatches |-> matches]
         ELSE IF matchType = "FullMatch"
              THEN [currentState |-> "SuccessMatch",
                    currentSequence |-> pushed,
                    currentMatches |-> matches]
              ELSE [currentState |-> "ImprovedMatch",
                    currentSequence |-> pushed,
                    currentMatches |-> matches]

RECURSIVE advance(_, _, _)
advance(t, m, keypress) ==
    LET pushed == Append(m.currentSequence, keypress)
        best == bestMatch(t, pushed)
        matchType == classify(t, best)
        matches == IF best # <<>> THEN leafValues(t, best[1]) ELSE <<>>
    IN CASE m.currentState = "NoMatch" ->
              startMatching(pushed, matchType, matches)
         [] m.currentState \in {"StartedMatch", "RetainedMatch", "ImprovedMatch"} ->
              continueMatching(keypress, pushed, matchType, matches)
         [] m.currentState \in {"SuccessMatch", "InvalidMatch"} ->
              advance(t, clearPrevious(m), keypress)

\* The RetainedMatch case written as one more case that calls advance again.
advanceEntriesReentersRetained(t, m, keypress) ==
    IF m.currentState \in {"SuccessMatch", "InvalidMatch", "RetainedMatch"}
    THEN <<m.currentState, "NoMatch">>
    ELSE <<m.currentState>>

\* The value of currentState at each entry of advance during one call: the
\* case SuccessMatch, InvalidMatch is the only one that calls advance again,
\* after its three assignments.
RECURSIVE advanceEntries(_, _, _)
advanceEntries(t, m, keypress) ==
    IF m.currentState \in {"SuccessMatch", "InvalidMatch"}
    THEN <<m.currentState>> \o advanceEntries(t, clearPrevious(m), keypress)
    ELSE <<m.currentState>>

allMatches(m) == m.currentMatches

fullMatch(m) ==
    LET numMatches == Len(allMatches(m))
        isFullMatch == m.currentState = "SuccessMatch"
    IN IF isFullMatch /\ numMatches # 1
       THEN Null
       ELSE IF isFullMatch /\ numMatches = 1 THEN m.currentMatches[1] ELSE Null

\* ---------------------------------------------------------------- MatchHandler
\* LeaderHotkeys.invokeCommand: the commands executed, in order.
invokeCommand(commandID) == IF commandID # "" THEN <<commandID>> ELSE <<>>

\* MatchHandler.emit: a null keymap is logged and then dereferenced, which
\* raises a TypeError before invokeCommand is entered.
emit(keymap) ==
    IF keymap \in {Null, Undefined}
    THEN [keymap |-> keymap, invoked |-> <<>>, raised |-> TRUE]
    ELSE [keymap |-> keymap, invoked |-> invokeCommand(keymap.commandID),
          raised |-> FALSE]

\* handleKeyDown that suppresses the event only in the SuccessMatch case.
handleKeyDownPreventsOnSuccessOnly(t, m, event) ==
    LET after == advance(t, m, fromEvent(event))
        e == emit(fullMatch(after))
    IN IF after.currentState = "SuccessMatch"
       THEN [machine |-> after, prevented |-> TRUE, keymap |-> e.keymap,
             invoked |-> e.invoked, raised |-> e.raised, emitted |-> <<e>>]
       ELSE [machine |-> after, prevented |-> FALSE, keymap |-> Undefined,
             invoked |-> <<>>, raised |-> FALSE, emitted |-> <<>>]

\* handleKeyDown whose in-progress case lacks its return and falls through
\* to the dispatch of the SuccessMatch case.
handleKeyDownFallsThrough(t, m, event) ==
    LET after == advance(t, m, fromEvent(event))
        e == emit(fullMatch(after))
    IN IF after.currentState = "NoMatch"
       THEN [machine |-> after, prevented |-> FALSE, keymap |-> Undefined,
             invoked |-> <<>>, raised |-> FALSE, emitted |-> <<>>]
       ELSE [machine |-> after, prevented |-> TRUE, keymap |-> e.keymap,
             invoked |-> e.invoked, raised |-> e.raised, emitted |-> <<e>>]

\* MatchHandler.handleKeyDown: keymap is the result of fullMatch() where it
\* is called, Undefined where it is not.
handleKeyDown(t, m, event) ==
    LET after == advance(t, m, fromEvent(event))
        e == emit(fullMatch(after))
    IN CASE after.currentState = "NoMatch" ->
              [machine |-> after, prevented |-> FALSE, keymap |-> Undefined,
               invoked |-> <<>>, raised |-> FALSE, emitted |-> <<>>]
         [] after.currentState \in {"RetainedMatch", "StartedMatch",
                                    "InvalidMatch", "ImprovedMatch"} ->
              [machine |-> after, prevented |-> TRUE, keymap |-> Undefined,
               invoked |-> <<>>, raised |-> FALSE, emitted |-> <<>>]
         [] after.currentState = "SuccessMatch" ->
              [machine |-> after, prevented |-> TRUE, keymap |-> e.keymap,
               invoked |-> e.invoked, raised |-> e.raised, emitted |-> <<e>>]

\* ---------------------------------------------------------------- RegisterMachine
RegistrationState == {"NoKeys", "FirstKey", "AddedKeys", "ContinuingMatching",
                      "DeletedKey", "PendingAddition", "PendingDeletion",
                      "FinishedRegistering"}

NewRegisterMachine == [currentState |-> "NoKeys", currentSequence |-> <<>>]

\* The non-pending case finishing on Ctrl+Alt+Enter.
registerKeyFinishesOnCtrlAltEnter(r, event) ==
    LET cls == classification(event)
    IN IF event.key = "Enter" /\ event.ctrl /\ event.alt
       THEN [r EXCEPT !.currentState = "FinishedRegistering"]
       ELSE IF cls = "NoKey"
            THEN [r EXCEPT !.currentState = "ContinuingMatching"]
            ELSE IF cls = "SpecialKey"
                 THEN [currentSequence |-> Append(r.currentSequence, event),
                       currentState |-> IF event.key = "Enter"
                                        THEN "PendingAddition"
                                        ELSE "PendingDeletion"]
                 ELSE [currentSequence |-> Append(r.currentSequence, event),
                       currentState |-> IF Len(r.currentSequence) + 1 = 1
                                        THEN "FirstKey"
                                        ELSE "AddedKeys"]

\* The non-pending case testing the length of the buffer before the push.
registerKeyTestsLengthBeforePush(r, event) ==
    LET cls == classification(event)
    IN IF cls = "NoKey"
       THEN [r EXCEPT !.currentState = "ContinuingMatching"]
       ELSE IF cls = "SpecialKey"
            THEN [currentSequence |-> Append(r.currentSequence, event),
                  currentState |-> IF event.key = "Enter"
                                   THEN "PendingAddition"
                                   ELSE "PendingDeletion"]
            ELSE [currentSequence |-> Append(r.currentSequence, event),
                  currentState |-> IF Len(r.currentSequence) = 1
                                   THEN "FirstKey"
                                   ELSE "AddedKeys"]

\* The non-pending case leaving the state as it is on a modifier-only press.
registerKeyKeepsStateOnModifier(r, event) ==
    LET cls == classification(event)
    IN IF cls = "NoKey"
       THEN r
       ELSE IF cls = "SpecialKey"
            THEN [currentSequence |-> Append(r.currentSequence, event),
                  currentState |-> IF event.key = "Enter"
                                   THEN "PendingAddition"
                                   ELSE "PendingDeletion"]
            ELSE [currentSequence |-> Append(r.currentSequence, event),
                  currentState |-> IF Len(r.currentSequence) + 1 = 1
                                   THEN "FirstKey"
                                   ELSE "AddedKeys"]

\* The non-pending case opening a pending state without buffering the key.
registerKeyHoldsSpecialKey(r, event) ==
    LET cls == classification(event)
    IN IF cls = "NoKey"
       THEN [r EXCEPT !.currentState = "ContinuingMatching"]
       ELSE IF cls = "SpecialKey"
            THEN [currentSequence |-> r.currentSequence,
                  currentState |-> IF event.key = "Enter"
                                   THEN "PendingAddition"
                                   ELSE "PendingDeletion"]
            ELSE [currentSequence |-> Append(r.currentSequence, event),
                  currentState |-> IF Len(r.currentSequence) + 1 = 1
                                   THEN "FirstKey"
                                   ELSE "AddedKeys"]

\* case NoKeys, FirstKey, ContinuingMatching, DeletedKey, AddedKeys
registerKey(r, event) ==
    LET cls == classification(event)
    IN IF cls = "NoKey"
       THEN [r EXCEPT !.currentState = "ContinuingMatching"]
       ELSE IF cls = "SpecialKey"
            THEN [currentSequence |-> Append(r.currentSequence, event),
                  currentState |-> IF event.key = "Enter"
                                   THEN "PendingAddition"
                                   ELSE "PendingDeletion"]
            ELSE [currentSequence |-> Append(r.currentSequence, event),
                  currentState |-> IF Len(r.currentSequence) + 1 = 1
                                   THEN "FirstKey"
                                   ELSE "AddedKeys"]

\* The pending case dropping the pending key when a plain Enter confirms it.
registerPendingDropsLiteral(r, event) ==
    IF event.key = "Enter" /\ event.ctrl /\ event.alt
    THEN [currentSequence |-> Pop(r.currentSequence),
          currentState |-> "FinishedRegistering"]
    ELSE IF event.key = "Enter"
         THEN [currentSequence |-> Pop(r.currentSequence),
               currentState |-> "AddedKeys"]
         ELSE IF event.key = "Backspace" /\ r.currentState = "PendingAddition"
              THEN [currentSequence |-> Pop(r.currentSequence),
                    currentState |-> "ContinuingMatching"]
              ELSE IF event.key = "Backspace" /\ r.currentState = "PendingDeletion"
                   THEN [currentSequence |-> Pop(Pop(r.currentSequence)),
                         currentState |-> "DeletedKey"]
                   ELSE r

\* The pending case treating Backspace after Enter as a confirmed deletion.
registerPendingDeletesOnDiscard(r, event) ==
    IF event.key = "Enter" /\ event.ctrl /\ event.alt
    THEN [currentSequence |-> Pop(r.currentSequence),
          currentState |-> "FinishedRegistering"]
    ELSE IF event.key = "Enter"
         THEN [r EXCEPT !.currentState = "AddedKeys"]
         ELSE IF event.key = "Backspace"
              THEN [currentSequence |-> Pop(Pop(r.currentSequence)),
                    currentState |-> "DeletedKey"]
              ELSE r

\* The pending case buffering a press that is neither Enter nor Backspace.
registerPendingBuffersOther(r, event) ==
    IF event.key = "Enter" /\ event.ctrl /\ event.alt
    THEN [currentSequence |-> Pop(r.currentSequence),
          currentState |-> "FinishedRegistering"]
    ELSE IF event.key = "Enter"
         THEN [r EXCEPT !.currentState = "AddedKeys"]
         ELSE IF event.key = "Backspace" /\ r.currentState = "PendingAddition"
              THEN [currentSequence |-> Pop(r.currentSequence),
                    currentState |-> "ContinuingMatching"]
              ELSE IF event.key = "Backspace" /\ r.currentState = "PendingDeletion"
                   THEN [currentSequence |-> Pop(Pop(r.currentSequence)),
                         currentState |-> "DeletedKey"]
                   ELSE [r EXCEPT !.currentSequence = Append(@, event)]

\* The pending case removing only the pending key on a confirmed deletion.
registerPendingDeletesSignalOnly(r, event) ==
    IF event.key = "Enter" /\ event.ctrl /\ event.alt
    THEN [currentSequence |-> Pop(r.currentSequence),
          currentState |-> "FinishedRegistering"]
    ELSE IF event.key = "Enter"
         THEN [r EXCEPT !.currentState = "AddedKeys"]
         ELSE IF event.key = "Backspace" /\ r.currentState = "PendingAddition"
              THEN [currentSequence |-> Pop(r.currentSequence),
                    currentState |-> "ContinuingMatching"]
              ELSE IF event.key = "Backspace" /\ r.currentState = "PendingDeletion"
                   THEN [currentSequence |-> Pop(r.currentSequence),
                         currentState |-> "DeletedKey"]
                   ELSE r

\* The pending case finishing on any Enter that has ctrl set.
registerPendingFinishesOnCtrlEnter(r, event) ==
    IF event.key = "Enter" /\ event.ctrl
    THEN [currentSequence |-> Pop(r.currentSequence),
          currentState |-> "FinishedRegistering"]
    ELSE IF event.key = "Enter"
         THEN [r EXCEPT !.currentState = "AddedKeys"]
         ELSE IF event.key = "Backspace" /\ r.currentState = "PendingAddition"
              THEN [currentSequence |-> Pop(r.currentSequence),
                    currentState |-> "ContinuingMatching"]
              ELSE IF event.key = "Backspace" /\ r.currentState = "PendingDeletion"
                   THEN [currentSequence |-> Pop(Pop(r.currentSequence)),
                         currentState |-> "DeletedKey"]
                   ELSE r

\* The pending case keeping the Enter that a Backspace discards.
registerPendingKeepsDiscardedEnter(r, event) ==
    IF event.key = "Enter" /\ event.ctrl /\ event.alt
    THEN [currentSequence |-> Pop(r.currentSequence),
          currentState |-> "FinishedRegistering"]
    ELSE IF event.key = "Enter"
         THEN [r EXCEPT !.currentState = "AddedKeys"]
         ELSE IF event.key = "Backspace" /\ r.currentState = "PendingAddition"
              THEN [r EXCEPT !.currentState = "ContinuingMatching"]
              ELSE IF event.key = "Backspace" /\ r.currentState = "PendingDeletion"
                   THEN [currentSequence |-> Pop(Pop(r.currentSequence)),
                         currentState |-> "DeletedKey"]
                   ELSE r

\* case PendingDeletion, PendingAddition
registerPending(r, event) ==
    IF event.key = "Enter" /\ event.ctrl /\ event.alt
    THEN [currentSequence |-> Pop(r.currentSequence),
          currentState |-> "FinishedRegistering"]
    ELSE IF event.key = "Enter"
         THEN [r EXCEPT !.currentState = "AddedKeys"]
         ELSE IF event.key = "Backspace" /\ r.currentState = "PendingAddition"
              THEN [currentSequence |-> Pop(r.currentSequence),
                    currentState |-> "ContinuingMatching"]
              ELSE IF event.key = "Backspace" /\ r.currentState = "PendingDeletion"
                   THEN [currentSequence |-> Pop(Pop(r.currentSequence)),
                         currentState |-> "DeletedKey"]
                   ELSE r

\* advance with a FinishedRegistering case that starts over from an empty
\* buffer.
registerAdvanceStartsOver(r, event) ==
    CASE r.currentState \in {"NoKeys", "FirstKey", "ContinuingMatching",
                             "DeletedKey", "AddedKeys"} ->
           registerKey(r, event)
      [] r.currentState \in {"PendingDeletion", "PendingAddition"} ->
           registerPending(r, event)
      [] r.currentState = "FinishedRegistering" ->
           registerKey(NewRegisterMachine, event)

RECURSIVE registerAdvance(_, _)
registerAdvance(r, event) ==
    CASE r.currentState \in {"NoKeys", "FirstKey", "ContinuingMatching",
                             "DeletedKey", "AddedKeys"} ->
           registerKey(r, event)
      [] r.currentState \in {"PendingDeletion", "PendingAddition"} ->
           registerPending(r, event)
      [] r.currentState = "FinishedRegistering" ->
           registerAdvance([r EXCEPT !.currentState = "ContinuingMatching"], event)

\* The value of currentState at each entry of RegisterMachine.advance during
\* one call: the case FinishedRegistering is the only one that calls advance
\* again, after its assignment.
RECURSIVE registerAdvanceEntries(_, _)
registerAdvanceEntries(r, event) ==
    IF r.currentState = "FinishedRegistering"
    THEN <<r.currentState>>
         \o registerAdvanceEntries([r EXCEPT !.currentState = "ContinuingMatching"],
                                   event)
    ELSE <<r.currentState>>

presses(r) == r.currentSequence

\* ---------------------------------------------------------------- SequenceModal, LeaderSettingsTab, LeaderHotkeys
KeyPress_of(keyPressLike) ==
    KeyPress(keyPressLike.key, keyPressLike.shift, keyPressLike.alt,
             keyPressLike.ctrl, keyPressLike.meta)

KeyMap_of(keyMapLike) ==
    KeyMap(keyMapLike.commandID,
           [i \in 1..Len(keyMapLike.sequence) |-> KeyPress_of(keyMapLike.sequence[i])])

\* findMatchingKeymaps leaving out the values that are no binding.
findMatchingKeymapsOfBindingsOnly(t, pressed) ==
    LET matches == bestMatch(t, pressed)
        values == IF matches = <<>> THEN <<>> ELSE leafValues(t, matches[1])
        isBinding(v) == v \notin {Undefined, Null}
    IN SelectSeq(values, isBinding)

\* MatchHandler.findMatchingKeymaps
findMatchingKeymaps(t, pressed) ==
    LET matches == bestMatch(t, pressed)
    IN IF matches = <<>> THEN <<>> ELSE leafValues(t, matches[1])

\* LeaderSettingsTab.conflicts
conflicts(t, keyPresses) == findMatchingKeymaps(t, keyPresses)

\* LeaderSettingsTab.addKeymap: the list handed to persistKeymaps.
addKeymap(list, keymap) == list \o <<keymap>>

\* LeaderSettingsTab.removeKeymap, positionId counted from 0: raised when
\* there is no binding at that position (toRemove.fullRepr() on undefined).
removeKeymap(list, positionId) ==
    IF positionId >= Len(list) \/ list[positionId + 1] = Undefined
    THEN [raised |-> TRUE, newKeymap |-> <<>>]
    ELSE [raised |-> FALSE,
          newKeymap |-> [i \in 1..(Len(list) - 1) |->
                           IF i <= positionId THEN list[i] ELSE list[i + 1]]]

\* LeaderSettingsTab.updateKeymap, positionId counted from 0: an assignment
\* past the end of the array leaves empty slots (Undefined) before it.
updateKeymap(list, positionId, keyMap) ==
    [i \in 1..(IF positionId + 1 > Len(list) THEN positionId + 1 ELSE Len(list)) |->
        IF i = positionId + 1 THEN keyMap
        ELSE IF i <= Len(list) THEN list[i] ELSE Undefined]

\* The rows LeaderSettingsTab.display renders: displayExisting raises on an
\* empty slot, which ends the loop of display.
RECURSIVE display(_)
display(list) ==
    IF list = <<>> \/ Head(list) = Undefined
    THEN <<>>
    ELSE <<Head(list)>> \o display(Tail(list))

\* The FinishedRegistering case that takes a single conflict for none.
finishedRegisteringAllowsOneConflict(t, list, commandId, keyPresses) ==
    IF Len(conflicts(t, keyPresses)) >= 2
    THEN [added |-> <<>>, closed |-> FALSE]
    ELSE [added |-> <<addKeymap(list, KeyMap(commandId, keyPresses))>>,
          closed |-> TRUE]

\* case RegistrationState.FinishedRegistering of SequenceModal.handleKeyDown:
\* added holds the list given to persistKeymaps, if any.
finishedRegistering(t, list, commandId, keyPresses) ==
    IF Len(conflicts(t, keyPresses)) >= 1
    THEN [added |-> <<>>, closed |-> FALSE]
    ELSE [added |-> <<addKeymap(list, KeyMap(commandId, keyPresses))>>,
          closed |-> TRUE]

\* SequenceModal.handleKeyDown
modalHandleKeyDown(t, list, commandId, r, event) ==
    LET after == registerAdvance(r, fromEvent(event))
        done == finishedRegistering(t, list, commandId, presses(after))
    IN IF after.currentState = "FinishedRegistering"
       THEN [register |-> after, added |-> done.added, closed |-> done.closed]
       ELSE [register |-> after, added |-> <<>>, closed |-> FALSE]

\* The .then callback of persistKeymaps: settings.hotkeys is assigned, then
\* MatchHandler.setKeymap builds the index; if Trie.from throws the handler
\* keeps its index and its machine.
saveResolved(plugin, newKeymaps) ==
    LET built == TrieFrom(newKeymaps)
    IN [settings |-> [plugin.settings EXCEPT !.hotkeys = newKeymaps],
        hotkeys |-> IF built.threw THEN plugin.hotkeys ELSE newKeymaps,
        trie |-> IF built.threw THEN plugin.trie ELSE built.trie,
        raised |-> built.threw]

\* The .catch callback installing the list although it was not saved.
saveRejectedInstalls(plugin, newKeymaps) ==
    [settings |-> [plugin.settings EXCEPT !.hotkeys = newKeymaps],
     hotkeys |-> plugin.hotkeys,
     trie |-> plugin.trie,
     raised |-> FALSE]

\* The .catch callback of persistKeymaps after saveData failed: a notice.
saveRejected(plugin, newKeymaps) ==
    [settings |-> plugin.settings,
     hotkeys |-> plugin.hotkeys,
     trie |-> plugin.trie,
     raised |-> FALSE]

\* ---------------------------------------------------------------- inputs
CtrlB == KeyPress_ctrl("b")
KeyH == KeyPress_just("h")
KeyJ == KeyPress_just("j")
KeyK == KeyPress_just("k")
KeyL == KeyPress_just("l")
KeyX == KeyPress_just("x")
ShiftDown == KeyPress_shift("Shift")
ControlDown == KeyPress_ctrl("Control")
Enter == KeyPress_just("Enter")
Backspace == KeyPress_just("Backspace")
Escape == KeyPress_just("Escape")
CtrlAltEnter == KeyPress_ctrlAlt("Enter")
CtrlEnter == KeyPress_ctrl("Enter")

defaultHotkeys ==
    << KeyMap("editor:focus-left", <<CtrlB, KeyH>>),
       KeyMap("editor:focus-right", <<CtrlB, KeyL>>),
       KeyMap("editor:focus-top", <<CtrlB, KeyK>>),
       KeyMap("editor:focus-bottom", <<CtrlB, KeyJ>>),
       KeyMap("command-palette:open",
              <<KeyPress_ctrl("q"), KeyPress_just("1"), KeyPress_just("2"),
                KeyPress_just("2")>>),
       KeyMap("command-palette:open",
              <<KeyPress_ctrl(" "), KeyPress_just("p"), KeyPress_just("a"),
                KeyPress_just("l"), KeyPress_just("l"), KeyPress_just("e"),
                KeyPress_just("t"), KeyPress_just("t"), KeyPress_just("e")>>) >>

\* The bindings a list handed to the index is drawn from: two that share a
\* leader, the leader alone, a second command on an already bound sequence,
\* a three-press sequence, one that holds a bare modifier press and one that
\* starts with a bare modifier press.
FocusLeft == KeyMap("editor:focus-left", <<CtrlB, KeyH>>)
FocusBottom == KeyMap("editor:focus-bottom", <<CtrlB, KeyJ>>)
LeaderAlone == KeyMap("workspace:split-vertical", <<CtrlB>>)
FocusLeftAgain == KeyMap("editor:focus-right", <<CtrlB, KeyH>>)
ThreePresses == KeyMap("command-palette:open", <<CtrlB, KeyH, KeyJ>>)
WithModifier == KeyMap("app:go-back", <<CtrlB, ShiftDown>>)
ModifierFirst == KeyMap("app:go-forward", <<ShiftDown, KeyH>>)

KeyMapPool == {FocusLeft, FocusBottom, LeaderAlone, FocusLeftAgain,
               ThreePresses, WithModifier, ModifierFirst}

\* Keydowns offered to the MatchMachine: a key no pooled binding uses, a
\* bare modifier, and the presses of the bindings in use.
PressUniverse == {CtrlB, KeyH, KeyJ, KeyK, KeyL, KeyX, ShiftDown}

BoundPresses(list) ==
    {list[i].sequence[j] : <<i, j>> \in
        {ij \in (1..Len(list)) \X (1..9) : ij[2] <= Len(list[ij[1]].sequence)}}

InputPresses == {p \in PressUniverse : p \in {KeyX, ShiftDown} \/ p \in BoundPresses(hotkeys)}

EventOf(press) ==
    KeyboardEvent(press.key, press.shift, press.alt, press.ctrl, press.meta)

InputEvents == {EventOf(press) : press \in InputPresses}

\* Key values of KeyPress objects.  The constructor takes any string (and
\* null or undefined at run time): fromEvent passes KeyboardEvent.key,
\* KeyPress.of the key of stored data, fromCustom the key of a descriptor.
\* Values of KeyboardEvent.key (letters, the space and plus keys, special
\* keys, modifier keys), the modifier name Ctrl of the host's descriptors,
\* strings that stored data may hold (one that begins like a modifier
\* prefix of text(), and the word null), and the absent key.
KeyUniverse == {"h", "b", " ", "+", "Enter", "Escape", "Backspace",
                "Alt", "Control", "Ctrl", "Shift", "Meta", "AltGraph",
                "Alt + h", "null",
                NullKey, UndefinedKey}

KeyPressUniverse ==
    {KeyPress(key, shift, alt, ctrl, meta) :
        key \in KeyUniverse, shift \in BOOLEAN, alt \in BOOLEAN,
        ctrl \in BOOLEAN, meta \in BOOLEAN}

\* Descriptors of the host: a key and any of the host's modifier names.
CustomModifiers == {"Mod", "Ctrl", "Meta", "Shift", "Alt"}

CustomCommands ==
    {CustomCommand(key, modifiers) :
        key \in {"h", " ", "Enter"}, modifiers \in SUBSET CustomModifiers}

\* Lists that settings.hotkeys holds when the MatchHandler is constructed.
InitialLists == {<<>>, <<FocusLeft, FocusBottom>>}

\* Commands offered by the dropdowns of the settings tab.
CommandPool == {"app:reload"}

\* Keydowns offered to the SequenceModal.
ModalEvents == {EventOf(KeyH), EventOf(Enter), EventOf(CtrlAltEnter)}

\* What loadData() resolves to: nothing saved, an object that holds no
\* list, a saved list.
LoadOutcomes ==
    {Null, [version |-> "0.1"]}
    \cup {[hotkeys |-> <<>>]}
    \cup {[hotkeys |-> <<a>>] : a \in KeyMapPool}
    \cup {[hotkeys |-> <<a, b>>] : a \in KeyMapPool, b \in KeyMapPool}

\* Keydowns offered to the RegisterMachine.
RegisterPresses == {KeyH, Enter, Backspace, Escape, CtrlAltEnter, ControlDown,
                    CtrlEnter}

\* ---------------------------------------------------------------- state machine
machine == [currentState |-> currentState,
            currentSequence |-> currentSequence,
            currentMatches |-> currentMatches]

registerMachine == [currentState |-> regState, currentSequence |-> regSequence]

InitMatch ==
    /\ currentState = NewMatchMachine.currentState
    /\ currentSequence = NewMatchMachine.currentSequence
    /\ currentMatches = NewMatchMachine.currentMatches
    /\ typed = <<>>
    /\ returned = <<>>
    /\ handled = <<>>
    /\ emitted = <<>>

InitRegister ==
    /\ regState = NewRegisterMachine.currentState
    /\ regSequence = NewRegisterMachine.currentSequence
    /\ regTyped = <<>>
    /\ regReturned = <<>>

InitPure ==
    /\ pressIn = KeyH
    /\ pressClass = ""
    /\ pressHash = ""
    /\ custom = CustomCommand("h", {})

\* No settings tab, no modal, no save under way.
InitStoreIdle ==
    /\ rows = <<>>
    /\ saves = <<>>
    /\ modal = <<>>
    /\ lastOp = ""
    /\ issued = 0

Init ==
    /\ hotkeys = <<>>
    /\ trie = NewTrie
    /\ pc = "addAll"
    /\ InitMatch
    /\ InitRegister
    /\ InitPure
    /\ InitStoreIdle
    /\ settings = [hotkeys |-> <<>>]
    /\ savedSettings = Null
    /\ onload = "done"
    /\ matchHandler = TRUE

\* One iteration of Trie.addAll inside Trie.from: Trie.add of the next item.
TrieAdd(keymap) ==
    /\ pc = "addAll"
    /\ Len(hotkeys) < MaxKeymaps
    /\ LET r == add(trie, keymap)
       IN /\ trie' = r.trie
          /\ pc' = IF r.threw THEN "threw" ELSE "addAll"
    /\ hotkeys' = Append(hotkeys, keymap)
    /\ UNCHANGED <<matchVars, regVars, handlerVars,
                 pureVars, storeVars, loadVars>>

\* Trie.from has returned: MatchHandler.setKeymap constructs the MatchMachine.
NewMachine ==
    /\ pc = "addAll"
    /\ pc' = "matching"
    /\ currentState' = NewMatchMachine.currentState
    /\ currentSequence' = NewMatchMachine.currentSequence
    /\ currentMatches' = NewMatchMachine.currentMatches
    /\ UNCHANGED <<hotkeys, trie, typed, returned, regVars, handlerVars,
                 pureVars, storeVars, loadVars>>

\* MatchHandler.setKeymap(defaultSettings.hotkeys), whole.
SetDefaultKeymap ==
    /\ pc = "addAll"
    /\ hotkeys = <<>>
    /\ ~TrieFrom(defaultHotkeys).threw
    /\ hotkeys' = defaultHotkeys
    /\ trie' = TrieFrom(defaultHotkeys).trie
    /\ pc' = "matching"
    /\ currentState' = NewMatchMachine.currentState
    /\ currentSequence' = NewMatchMachine.currentSequence
    /\ currentMatches' = NewMatchMachine.currentMatches
    /\ UNCHANGED <<typed, returned, regVars, handlerVars,
                 pureVars, storeVars, loadVars>>

\* MatchMachine.advance(keypress)
Advance(keypress) ==
    /\ pc = "matching"
    /\ Len(typed) < MaxTyped
    /\ LET m == advance(trie, machine, keypress)
       IN /\ currentState' = m.currentState
          /\ currentSequence' = m.currentSequence
          /\ currentMatches' = m.currentMatches
          /\ returned' = Append(returned, m.currentState)
    /\ typed' = Append(typed, keypress)
    /\ UNCHANGED <<trieVars, regVars, pureVars, storeVars, loadVars>>

\* MatchHandler.handleKeyDown(event)
HandleKeyDown(event) ==
    /\ Advance(fromEvent(event))
    /\ LET h == handleKeyDown(trie, machine, event)
       IN /\ handled' = Append(handled, [prevented |-> h.prevented,
                                         keymap |-> h.keymap,
                                         invoked |-> h.invoked,
                                         raised |-> h.raised])
          /\ emitted' = emitted \o h.emitted

\* RegisterMachine.advance(event)
RegisterAdvance(event) ==
    /\ Len(regTyped) < MaxRegTyped
    /\ LET r == registerAdvance(registerMachine, event)
       IN /\ regState' = r.currentState
          /\ regSequence' = r.currentSequence
          /\ regReturned' = Append(regReturned, r.currentState)
    /\ regTyped' = Append(regTyped, event)
    /\ UNCHANGED <<trieVars, matchVars, handlerVars,
                 pureVars, storeVars, loadVars>>

Next ==
    \/ \E keymap \in KeyMapPool : TrieAdd(keymap)
    \/ NewMachine
    \/ SetDefaultKeymap
    \/ \E event \in InputEvents : HandleKeyDown(event)

Spec == Init /\ [][Next]_vars

\* KeyPress.classification()
Classification ==
    /\ pressClass = ""
    /\ pressClass' = classification(pressIn)
    /\ UNCHANGED <<trieVars, matchVars, regVars, handlerVars, pressIn, pressHash,
                   custom, storeVars, loadVars>>

\* KeyPress.serialize()
Serialize ==
    /\ pressHash = ""
    /\ pressHash' = serialize(pressIn)
    /\ UNCHANGED <<trieVars, matchVars, regVars, handlerVars, pressIn, pressClass,
                   custom, storeVars, loadVars>>

InitKeyPress ==
    /\ hotkeys = <<>>
    /\ trie = NewTrie
    /\ pc = "addAll"
    /\ InitMatch
    /\ InitRegister
    /\ pressIn \in KeyPressUniverse
    /\ pressClass = ""
    /\ pressHash = ""
    /\ custom = CustomCommand("h", {})
    /\ InitStoreIdle
    /\ settings = [hotkeys |-> <<>>]
    /\ savedSettings = Null
    /\ onload = "done"
    /\ matchHandler = TRUE

NextKeyPress == Classification \/ Serialize

SpecKeyPress == InitKeyPress /\ [][NextKeyPress]_vars

\* No KeyPress has been constructed yet from the descriptor.
InitCustom ==
    /\ hotkeys = <<>>
    /\ trie = NewTrie
    /\ pc = "addAll"
    /\ InitMatch
    /\ InitRegister
    /\ pressIn = Undefined
    /\ pressClass = ""
    /\ pressHash = ""
    /\ custom \in CustomCommands
    /\ InitStoreIdle
    /\ settings = [hotkeys |-> <<>>]
    /\ savedSettings = Null
    /\ onload = "done"
    /\ matchHandler = TRUE

\* KeyPress.fromCustom(binding)
FromCustom ==
    /\ pressIn = Undefined
    /\ pressIn' = fromCustom(custom)
    /\ UNCHANGED <<trieVars, matchVars, regVars, handlerVars, pressClass, pressHash,
                   custom, storeVars, loadVars>>

NextCustom ==
    \/ FromCustom
    \/ pressIn # Undefined /\ Classification
    \/ pressIn # Undefined /\ Serialize

SpecCustom == InitCustom /\ [][NextCustom]_vars

NextRegister == \E event \in RegisterPresses : RegisterAdvance(event)

SpecRegister == Init /\ [][NextRegister]_vars

\* Both machines: they share no state, so each is driven while the other is
\* as constructed.
NextMachines ==
    \/ regTyped = <<>> /\ Next
    \/ hotkeys = <<>> /\ pc = "addAll" /\ NextRegister

SpecMachines == Init /\ [][NextMachines]_vars

\* ---------------------------------------------------------------- settings store
plugin == [settings |-> settings, hotkeys |-> hotkeys, trie |-> trie]

\* The states in which a MatchHandler has been constructed over
\* settings.hotkeys and the settings tab has been added.  loadSavedSettings
\* of this revision never constructs the handler and onload raises before
\* the tab is created (SpecLoad), so these states contain the states the
\* program reaches and more: what holds in every behaviour from them holds
\* of the program, and a violation found from them is not one of the
\* program.
InitStore ==
    /\ \E list \in InitialLists :
          /\ settings = [hotkeys |-> list]
          /\ hotkeys = list
          /\ trie = TrieFrom(list).trie
    /\ pc = "matching"
    /\ InitMatch
    /\ InitRegister
    /\ InitPure
    /\ InitStoreIdle
    /\ savedSettings = Null
    /\ onload = "done"
    /\ matchHandler = TRUE

\* The settings tab is opened: LeaderSettingsTab.display()
Display ==
    /\ modal = <<>>
    /\ rows # display(settings.hotkeys)
    /\ rows' = display(settings.hotkeys)
    /\ lastOp' = "display"
    /\ UNCHANGED <<trieVars, matchVars, regVars, handlerVars, pureVars, loadVars,
                   settings, saves, modal, issued>>

\* new SequenceModal(parent, commandId).open()
OpenModal(commandId) ==
    /\ modal = <<>>
    /\ issued < MaxIssued
    /\ modal' = <<commandId>>
    /\ regState' = NewRegisterMachine.currentState
    /\ regSequence' = NewRegisterMachine.currentSequence
    /\ regTyped' = <<>>
    /\ regReturned' = <<>>
    /\ lastOp' = "open"
    /\ UNCHANGED <<trieVars, matchVars, handlerVars, pureVars, loadVars,
                   settings, rows, saves, issued>>

\* SequenceModal.handleKeyDown(event); on an addition, addKeymap calls
\* persistKeymaps, and close() runs onClose, which displays the tab.
ModalKeyDown(event) ==
    /\ modal # <<>>
    /\ Len(regTyped) < MaxModalTyped
    /\ LET h == modalHandleKeyDown(trie, settings.hotkeys, modal[1],
                                   registerMachine, event)
       IN /\ regState' = h.register.currentState
          /\ regSequence' = h.register.currentSequence
          /\ regReturned' = Append(regReturned, h.register.currentState)
          /\ saves' = saves \o h.added
          /\ issued' = issued + Len(h.added)
          /\ modal' = IF h.closed THEN <<>> ELSE modal
          /\ rows' = IF h.closed THEN display(settings.hotkeys) ELSE rows
          /\ lastOp' = IF h.added # <<>> THEN "added"
                       ELSE IF h.register.currentState = "FinishedRegistering"
                            THEN "conflict" ELSE "key"
    /\ regTyped' = Append(regTyped, fromEvent(event))
    /\ UNCHANGED <<trieVars, matchVars, handlerVars, pureVars, loadVars, settings>>

\* The modal is dismissed: SequenceModal.onClose()
CloseModal ==
    /\ modal # <<>>
    /\ modal' = <<>>
    /\ rows' = display(settings.hotkeys)
    /\ lastOp' = "close"
    /\ UNCHANGED <<trieVars, matchVars, regVars, handlerVars, pureVars, loadVars,
                   settings, saves, issued>>

\* The delete button of a displayed row: removeKeymap(positionId), display()
RemoveClick(positionId) ==
    /\ modal = <<>>
    /\ issued < MaxIssued
    /\ positionId < Len(rows)
    /\ LET removed == removeKeymap(settings.hotkeys, positionId)
       IN /\ saves' = IF removed.raised THEN saves
                      ELSE Append(saves, removed.newKeymap)
          /\ issued' = IF removed.raised THEN issued ELSE issued + 1
          /\ rows' = IF removed.raised THEN rows ELSE display(settings.hotkeys)
          /\ lastOp' = IF removed.raised THEN "removeRaised" ELSE "removed"
    /\ UNCHANGED <<trieVars, matchVars, regVars, handlerVars, pureVars, loadVars,
                   settings, modal>>

\* The command dropdown of a displayed row: its onChange callback
ChangeCommand(positionId, newCommand) ==
    /\ modal = <<>>
    /\ issued < MaxIssued
    /\ positionId < Len(rows)
    /\ LET newKeyMap == [KeyMap_of(rows[positionId + 1]) EXCEPT !.commandID = newCommand]
       IN saves' = Append(saves, updateKeymap(settings.hotkeys, positionId, newKeyMap))
    /\ issued' = issued + 1
    /\ lastOp' = "updated"
    /\ UNCHANGED <<trieVars, matchVars, regVars, handlerVars, pureVars, loadVars,
                   settings, rows, modal>>

\* A saveData promise is fulfilled: the .then callback of persistKeymaps;
\* an exception of setKeymap goes to the .catch callback.
SaveSucceeds(i) ==
    /\ i \in 1..Len(saves)
    /\ LET after == saveResolved(plugin, saves[i])
       IN /\ settings' = after.settings
          /\ hotkeys' = after.hotkeys
          /\ trie' = after.trie
          /\ lastOp' = IF after.raised THEN "setKeymapRaised" ELSE "saved"
          /\ IF after.raised
             THEN UNCHANGED <<currentState, currentSequence, currentMatches,
                              typed, returned>>
             ELSE /\ currentState' = NewMatchMachine.currentState
                  /\ currentSequence' = NewMatchMachine.currentSequence
                  /\ currentMatches' = NewMatchMachine.currentMatches
                  /\ typed' = <<>>
                  /\ returned' = <<>>
    /\ saves' = [j \in 1..(Len(saves) - 1) |-> IF j < i THEN saves[j] ELSE saves[j + 1]]
    /\ UNCHANGED <<pc, regVars, handlerVars, pureVars, loadVars, rows, modal, issued>>

\* A saveData promise is rejected: the .catch callback of persistKeymaps
SaveFails(i) ==
    /\ i \in 1..Len(saves)
    /\ LET after == saveRejected(plugin, saves[i])
       IN /\ settings' = after.settings
          /\ hotkeys' = after.hotkeys
          /\ trie' = after.trie
    /\ lastOp' = "saveFailed"
    /\ saves' = [j \in 1..(Len(saves) - 1) |-> IF j < i THEN saves[j] ELSE saves[j + 1]]
    /\ UNCHANGED <<pc, matchVars, regVars, handlerVars, pureVars, loadVars,
                   rows, modal, issued>>

NextStore ==
    \/ Display
    \/ \E commandId \in CommandPool : OpenModal(commandId)
    \/ \E event \in ModalEvents : ModalKeyDown(event)
    \/ CloseModal
    \/ \E positionId \in 0..(MaxKeymaps + MaxIssued) :
          RemoveClick(positionId)
    \/ \E positionId \in 0..(MaxKeymaps + MaxIssued), newCommand \in CommandPool :
          ChangeCommand(positionId, newCommand)
    \/ \E i \in 1..MaxIssued : SaveSucceeds(i)
    \/ \E i \in 1..MaxIssued : SaveFails(i)

SpecStore == InitStore /\ [][NextStore]_vars

\* ---------------------------------------------------------------- onload
\* LeaderHotkeys.loadSavedSettings: the statements of the try block in
\* evaluation order, and the catch block.
loadSavedSettings(settingsBefore, saved) ==
    IF settingsBefore = Undefined \/ saved = Null
    THEN [settings |-> [hotkeys |-> defaultHotkeys], matchHandler |-> FALSE,
          hotkeys |-> <<>>, trie |-> NewTrie]
    ELSE LET mapped == [i \in 1..Len(settingsBefore.hotkeys) |->
                           KeyMap_of(settingsBefore.hotkeys[i])]
             built == TrieFrom(mapped)
         IN IF built.threw
            THEN [settings |-> [hotkeys |-> defaultHotkeys], matchHandler |-> FALSE,
                  hotkeys |-> <<>>, trie |-> NewTrie]
            ELSE [settings |-> [hotkeys |-> mapped], matchHandler |-> TRUE,
                  hotkeys |-> mapped, trie |-> built.trie]

InitLoad ==
    /\ hotkeys = <<>>
    /\ trie = NewTrie
    /\ pc = "addAll"
    /\ InitMatch
    /\ InitRegister
    /\ InitPure
    /\ InitStoreIdle
    /\ settings = Undefined
    /\ savedSettings \in LoadOutcomes
    /\ onload = "loadSavedSettings"
    /\ matchHandler = FALSE

\* await this.loadSavedSettings()
LoadSavedSettings ==
    /\ onload = "loadSavedSettings"
    /\ LET loaded == loadSavedSettings(settings, savedSettings)
       IN /\ settings' = loaded.settings
          /\ matchHandler' = loaded.matchHandler
          /\ hotkeys' = loaded.hotkeys
          /\ trie' = loaded.trie
          /\ pc' = IF loaded.matchHandler THEN "matching" ELSE pc
    /\ onload' = "registerEventsAndCallbacks"
    /\ UNCHANGED <<matchVars, regVars, handlerVars, pureVars,
                   rows, saves, modal, lastOp, issued, savedSettings>>

\* await this.registerEventsAndCallbacks(): reading this.matchHandler.handleKeyDown
\* raises a TypeError when no handler was assigned, and onload rejects.
RegisterEventsAndCallbacks ==
    /\ onload = "registerEventsAndCallbacks"
    /\ onload' = IF matchHandler THEN "done" ELSE "raised"
    /\ UNCHANGED <<trieVars, matchVars, regVars, handlerVars, pureVars, storeVars,
                   savedSettings, matchHandler>>

NextLoad == LoadSavedSettings \/ RegisterEventsAndCallbacks

SpecLoad == InitLoad /\ [][NextLoad]_vars

\* ---------------------------------------------------------------- claims
InProgress == {"StartedMatch", "RetainedMatch", "ImprovedMatch"}
Terminal == {"SuccessMatch", "InvalidMatch"}
StateBefore(i) == IF i = 1 THEN "NoMatch" ELSE returned[i - 1]
IsFirstPress(press) == \E i \in 1..Len(hotkeys) : hotkeys[i].sequence[1] = press
PairwiseDifferentSequences ==
    \A i, j \in 1..Len(hotkeys) : i # j => hotkeys[i].sequence # hotkeys[j].sequence

\* C1: for every index built without error and every binding B of its list,
\* feeding exactly B's sequence to a fresh MatchMachine makes the last advance
\* return SuccessMatch and fullMatch() return B (strict-prefix lists included).
C1_FullSequenceSucceeds ==
    pc = "matching" =>
        \A i \in 1..Len(hotkeys) :
            typed = hotkeys[i].sequence =>
                /\ returned[Len(returned)] = "SuccessMatch"
                /\ fullMatch(machine) = hotkeys[i]

\* C2: with bindings that share the first press Ctrl+b and differ in a plain
\* second key, Ctrl+b on a fresh engine returns StartedMatch with allMatches()
\* the bindings that start with Ctrl+b; a bound second key then returns
\* SuccessMatch with that binding's commandID; in a new run Ctrl+b and the
\* unbound key x return StartedMatch and then InvalidMatch.
StartsWithLeader(keymap) == keymap.sequence[1] = CtrlB
LeaderBindings == SelectSeq(hotkeys, StartsWithLeader)
LeaderScenario ==
    /\ pc = "matching"
    /\ Len(LeaderBindings) >= 2
    /\ \A i \in 1..Len(LeaderBindings) :
          /\ Len(LeaderBindings[i].sequence) = 2
          /\ classification(LeaderBindings[i].sequence[2]) = "NormalKey"
BoundTo(press) ==
    {LeaderBindings[i].commandID : i \in
        {k \in 1..Len(LeaderBindings) : LeaderBindings[k].sequence[2] = press}}
C2_LeaderScenario ==
    LeaderScenario =>
        /\ (Len(typed) >= 1 /\ typed[1] = CtrlB) => returned[1] = "StartedMatch"
        /\ typed = <<CtrlB>> => allMatches(machine) = LeaderBindings
        /\ (Len(typed) >= 2 /\ typed[1] = CtrlB /\ BoundTo(typed[2]) # {}) =>
              /\ returned[2] = "SuccessMatch"
              /\ Len(typed) = 2 =>
                    /\ fullMatch(machine) \notin {Null, Undefined}
                    /\ BoundTo(typed[2]) = {fullMatch(machine).commandID}
        /\ (Len(typed) >= 2 /\ typed[1] = CtrlB /\ typed[2] = KeyX) =>
              returned[2] = "InvalidMatch"
        /\ (Len(typed) >= 4 /\ typed[1] = CtrlB /\ BoundTo(typed[2]) # {}
              /\ typed[3] = CtrlB /\ typed[4] = KeyX) =>
              /\ returned[3] = "StartedMatch"
              /\ returned[4] = "InvalidMatch"
C2_Witness ==
    /\ LeaderScenario
    /\ hotkeys = <<FocusLeft, FocusBottom>>
    /\ typed = <<CtrlB, KeyH, CtrlB, KeyX>>
    /\ returned = <<"StartedMatch", "SuccessMatch", "StartedMatch", "InvalidMatch">>

\* C3: for every index built without error and every binding B that holds no
\* modifier-only press, feeding a strict non-empty prefix of B's sequence to a
\* fresh MatchMachine returns StartedMatch on the first press and
\* ImprovedMatch on each later one, and allMatches() then contains B.
NoModifierOnlyPress(keymap) ==
    \A j \in 1..Len(keymap.sequence) : classification(keymap.sequence[j]) # "NoKey"
C3_StrictPrefixIsPartial ==
    pc = "matching" =>
        \A i \in 1..Len(hotkeys) :
            (/\ NoModifierOnlyPress(hotkeys[i])
             /\ typed # <<>>
             /\ Len(typed) < Len(hotkeys[i].sequence)
             /\ IsPrefix(typed, hotkeys[i].sequence)) =>
                /\ returned[1] = "StartedMatch"
                /\ \A k \in 2..Len(returned) : returned[k] = "ImprovedMatch"
                /\ hotkeys[i] \in Range(allMatches(machine))

\* C4: with no run in progress, a NormalKey press that is the first press of
\* no binding makes advance return NoMatch and leaves the buffered sequence
\* and the match set empty; advance returns InvalidMatch only when the state
\* before the call was StartedMatch, RetainedMatch or ImprovedMatch.
C4_NoMatchPassthrough ==
    pc = "matching" =>
        \A i \in 1..Len(typed) :
            /\ (/\ StateBefore(i) \notin InProgress
                /\ classification(typed[i]) = "NormalKey"
                /\ ~IsFirstPress(typed[i])) =>
                   /\ returned[i] = "NoMatch"
                   /\ i = Len(typed) =>
                         currentSequence = <<>> /\ allMatches(machine) = <<>>
            /\ returned[i] = "InvalidMatch" => StateBefore(i) \in InProgress
C4_Witness ==
    /\ pc = "matching"
    /\ typed = <<CtrlB, KeyX, KeyX>>
    /\ returned = <<"StartedMatch", "InvalidMatch", "NoMatch">>
    /\ currentSequence = <<>>

\* C5: in StartedMatch, RetainedMatch or ImprovedMatch, advancing with a
\* modifier-only press returns RetainedMatch and leaves allMatches() and the
\* buffered currentSequence as they were immediately before the press.
C5_ModifierAbsorption ==
    [][(/\ pc = "matching"
        /\ currentState \in InProgress
        /\ Len(typed') = Len(typed) + 1
        /\ classification(typed'[Len(typed')]) = "NoKey") =>
            /\ currentState' = "RetainedMatch"
            /\ currentMatches' = currentMatches
            /\ currentSequence' = currentSequence]_vars

\* C6: from SuccessMatch or InvalidMatch, advance(p) returns the same state
\* and leaves the same buffered sequence, allMatches() and fullMatch() as
\* advance(p) on a freshly constructed MatchMachine over the same index.
C6_ResetThenReprocess ==
    pc = "matching" =>
        \A i \in 2..Len(typed) :
            returned[i - 1] \in Terminal =>
                LET fresh == advance(trie, NewMatchMachine, typed[i])
                IN /\ returned[i] = fresh.currentState
                   /\ i = Len(typed) =>
                         /\ currentSequence = fresh.currentSequence
                         /\ allMatches(machine) = allMatches(fresh)
                         /\ fullMatch(machine) = fullMatch(fresh)
C6_Witness ==
    /\ pc = "matching"
    /\ typed = <<CtrlB, KeyX, CtrlB, KeyH>>
    /\ returned = <<"StartedMatch", "InvalidMatch", "StartedMatch", "SuccessMatch">>
    /\ fullMatch(machine) = FocusLeft

\* C7: inserting a binding whose press sequence is identical to that of a
\* binding already inserted raises 'Duplicate keymap', whatever the two
\* command identifiers are.
C7_DuplicateRejected ==
    (\E i, j \in 1..Len(hotkeys) :
        i < j /\ hotkeys[i].sequence = hotkeys[j].sequence) => pc = "threw"
C7_Witness ==
    /\ pc = "threw"
    /\ hotkeys = <<FocusLeft, FocusLeftAgain>>
    /\ FocusLeft.commandID # FocusLeftAgain.commandID

\* C8: inserting bindings with different press sequences succeeds in either
\* order, also when one sequence is a strict prefix of another, and afterwards
\* bestMatch of each binding's full sequence is a node whose value is that
\* binding.
C8_DifferentSequencesRetrievable ==
    PairwiseDifferentSequences =>
        /\ pc # "threw"
        /\ \A i \in 1..Len(hotkeys) :
              LET node == bestMatch(trie, hotkeys[i].sequence)
              IN node # <<>> /\ trie[node[1]].value = hotkeys[i]

\* C9 as stated: on a fresh RegisterMachine, after h and Enter (PendingAddition),
\* plain Enter and then Ctrl+Alt+Enter leave the machine in
\* FinishedRegistering with presses() equal to [h, Enter].
C9_AsStated ==
    /\ regTyped = <<KeyH, Enter>> => regState = "PendingAddition"
    /\ regTyped = <<KeyH, Enter, Enter, CtrlAltEnter>> =>
          /\ regState = "FinishedRegistering"
          /\ presses(registerMachine) = <<KeyH, Enter>>

\* C9 (amended): on a fresh RegisterMachine, after h and Enter
\* (PendingAddition), plain Enter confirms the literal Enter (AddedKeys,
\* [h, Enter]); the Ctrl+Alt+Enter that follows is buffered as a pending key
\* (PendingAddition, [h, Enter, Ctrl+Alt+Enter]) and a second Ctrl+Alt+Enter
\* leaves the machine in FinishedRegistering with presses() equal to
\* exactly [h, Enter].
C9_LiteralEnterKept ==
    /\ regTyped = <<KeyH, Enter>> => regState = "PendingAddition"
    /\ regTyped = <<KeyH, Enter, Enter>> =>
          /\ regState = "AddedKeys"
          /\ presses(registerMachine) = <<KeyH, Enter>>
    /\ regTyped = <<KeyH, Enter, Enter, CtrlAltEnter>> =>
          /\ regState = "PendingAddition"
          /\ presses(registerMachine) = <<KeyH, Enter, CtrlAltEnter>>
    /\ regTyped = <<KeyH, Enter, Enter, CtrlAltEnter, CtrlAltEnter>> =>
          /\ regState = "FinishedRegistering"
          /\ presses(registerMachine) = <<KeyH, Enter>>
C9_Witness ==
    /\ regTyped = <<KeyH, Enter, Enter, CtrlAltEnter, CtrlAltEnter>>
    /\ regReturned = <<"FirstKey", "PendingAddition", "AddedKeys",
                       "PendingAddition", "FinishedRegistering">>
    /\ presses(registerMachine) = <<KeyH, Enter>>

\* C10 as stated: on a fresh RegisterMachine, after h, Enter, Backspace, a
\* Ctrl+Alt+Enter press leaves the machine in FinishedRegistering with
\* presses() equal to [h]; before it the machine is not in FinishedRegistering.
C10_AsStated ==
    /\ (regTyped # <<>> /\ IsPrefix(regTyped, <<KeyH, Enter, Backspace>>)) =>
          regState # "FinishedRegistering"
    /\ regTyped = <<KeyH, Enter, Backspace, CtrlAltEnter>> =>
          /\ regState = "FinishedRegistering"
          /\ presses(registerMachine) = <<KeyH>>

\* C10 (amended): on a fresh RegisterMachine, after h, Enter, Backspace the
\* Enter is discarded (ContinuingMatching, [h]); the Ctrl+Alt+Enter that
\* follows is buffered as a pending key (PendingAddition,
\* [h, Ctrl+Alt+Enter]) and a second Ctrl+Alt+Enter leaves the machine in
\* FinishedRegistering with presses() equal to exactly [h]; before that
\* second Ctrl+Alt+Enter the machine is not in FinishedRegistering.
C10_EnterDiscarded ==
    /\ (regTyped # <<>>
        /\ IsPrefix(regTyped, <<KeyH, Enter, Backspace, CtrlAltEnter>>)) =>
          regState # "FinishedRegistering"
    /\ regTyped = <<KeyH, Enter, Backspace>> =>
          /\ regState = "ContinuingMatching"
          /\ presses(registerMachine) = <<KeyH>>
    /\ regTyped = <<KeyH, Enter, Backspace, CtrlAltEnter>> =>
          /\ regState = "PendingAddition"
          /\ presses(registerMachine) = <<KeyH, CtrlAltEnter>>
    /\ regTyped = <<KeyH, Enter, Backspace, CtrlAltEnter, CtrlAltEnter>> =>
          /\ regState = "FinishedRegistering"
          /\ presses(registerMachine) = <<KeyH>>
C10_Witness ==
    /\ regTyped = <<KeyH, Enter, Backspace, CtrlAltEnter, CtrlAltEnter>>
    /\ regReturned = <<"FirstKey", "PendingAddition", "ContinuingMatching",
                       "PendingAddition", "FinishedRegistering">>
    /\ presses(registerMachine) = <<KeyH>>

\* C11: a keydown is suppressed (preventDefault) exactly when the state that
\* advance returned for it is not NoMatch.
C11_SuppressedIffNotNoMatch ==
    \A i \in 1..Len(handled) : handled[i].prevented <=> returned[i] # "NoMatch"

C11_Witness ==
    /\ \E i \in 1..Len(handled) :
          returned[i] = "InvalidMatch" /\ handled[i].prevented
    /\ \E i \in 1..Len(handled) :
          returned[i] = "NoMatch" /\ ~handled[i].prevented
    /\ \E i \in 1..Len(handled) :
          returned[i] = "StartedMatch" /\ handled[i].prevented

\* C12: a keydown invokes a command exactly when advance returned
\* SuccessMatch and fullMatch() returned a binding, and then the commandID
\* of that binding, once; emit is entered once for every SuccessMatch and
\* for no other keydown; a dispatch whose binding is null invokes nothing,
\* and no keydown raises.  Every SuccessMatch comes with a binding of the
\* list, so that no dispatch has a null binding.
C12_DispatchOnSuccess ==
    /\ \A i \in 1..Len(handled) :
          handled[i].invoked =
             IF returned[i] = "SuccessMatch" /\ handled[i].keymap \notin {Null, Undefined}
             THEN <<handled[i].keymap.commandID>>
             ELSE <<>>
    /\ \A i \in 1..Len(handled) :
          /\ ~handled[i].raised
          /\ returned[i] = "SuccessMatch" => handled[i].keymap \in Range(hotkeys)
          /\ returned[i] # "SuccessMatch" => handled[i].keymap = Undefined
    /\ Len(emitted) = Cardinality({i \in 1..Len(returned) : returned[i] = "SuccessMatch"})
    /\ \A i \in 1..Len(emitted) :
          /\ emitted[i].keymap = Null => emitted[i].invoked = <<>>
          /\ ~emitted[i].raised

C12_Witness ==
    /\ pc = "matching"
    /\ hotkeys = <<FocusLeft, FocusBottom>>
    /\ typed = <<CtrlB, KeyH, CtrlB, KeyJ>>
    /\ returned = <<"StartedMatch", "SuccessMatch", "StartedMatch", "SuccessMatch">>
    /\ handled[1].invoked = <<>>
    /\ handled[2].invoked = <<"editor:focus-left">>
    /\ handled[4].invoked = <<"editor:focus-bottom">>
    /\ Len(emitted) = 2
    /\ emitted[2].keymap = FocusBottom

\* C16 as stated: the classification is NoKey exactly for the keys Alt,
\* Control, Ctrl, Shift, Meta, AltGraph, null and undefined, SpecialKey
\* exactly for Enter, Escape and Backspace, NormalKey otherwise.
C16_AsStated ==
    pressClass # "" =>
       pressClass =
          IF pressIn.key \in {"Alt", "Control", "Ctrl", "Shift", "Meta", "AltGraph",
                            NullKey, UndefinedKey}
          THEN "NoKey"
          ELSE IF pressIn.key \in {"Enter", "Escape", "Backspace"}
               THEN "SpecialKey"
               ELSE "NormalKey"

\* C16: the classification depends on the key alone; it is NoKey exactly for
\* Alt, Control, Shift, Meta, AltGraph, null and undefined, SpecialKey exactly
\* for Enter, Escape and Backspace, and NormalKey otherwise, Ctrl included.
C16_ClassificationByKey ==
    pressClass # "" =>
       pressClass =
          IF pressIn.key \in {"Alt", "Control", "Shift", "Meta", "AltGraph",
                            NullKey, UndefinedKey}
          THEN "NoKey"
          ELSE IF pressIn.key \in {"Enter", "Escape", "Backspace"}
               THEN "SpecialKey"
               ELSE "NormalKey"

C16_Witness ==
    /\ pressIn.key = "AltGraph" /\ pressIn.ctrl /\ pressIn.shift
    /\ pressClass = "NoKey"

\* C17: two KeyPress values serialize to the same string exactly when they
\* have the same key and the same four flags, and the string lists the
\* modifiers in the order meta, ctrl, alt, shift before the key.
C17_SerializeUnique ==
    pressHash # "" =>
       /\ \A other \in KeyPressUniverse :
             serialize(other) = pressHash <=> other = pressIn
       /\ pressHash =
             (IF pressIn.meta THEN "U+2318 + " ELSE "") \o
             (IF pressIn.ctrl THEN "Ctrl + " ELSE "") \o
             (IF pressIn.alt THEN "Alt + " ELSE "") \o
             (IF pressIn.shift THEN "U+21E7 + " ELSE "") \o
             keyString(pressIn.key)

\* The same list in another order.
Reordered(list) ==
    {[i \in 1..Len(list) |-> list[f[i]]] : f \in Permutations(1..Len(list))}

\* The state and the fullMatch() command that a machine over t, starting as
\* m, gives for each of the presses from the i-th on.
RECURSIVE Behaviour(_, _, _, _)
Behaviour(t, m, pressed, i) ==
    IF i > Len(pressed)
    THEN <<>>
    ELSE LET after == advance(t, m, pressed[i])
             full == fullMatch(after)
         IN << [state |-> after.currentState,
                commandID |-> IF full = Null THEN "" ELSE full.commandID] >>
            \o Behaviour(t, after, pressed, i + 1)

\* C18: for every list and every reordering of it, Trie.from succeeds for
\* both or fails for both, and when it succeeds the two machines return the
\* same state and the same fullMatch() command for every press sequence.
C18_OrderIndependent ==
    \A other \in Reordered(hotkeys) :
        LET a == TrieFrom(hotkeys)
            b == TrieFrom(other)
        IN /\ a.threw = b.threw
           /\ ~a.threw =>
                 Behaviour(a.trie, NewMatchMachine, typed, 1)
                    = Behaviour(b.trie, NewMatchMachine, typed, 1)

IsIdleModifierPress ==
    /\ pc = "matching"
    /\ currentState = "NoMatch"
    /\ Len(typed') = Len(typed) + 1
    /\ classification(typed'[Len(typed')]) = "NoKey"

StaysIdle ==
    /\ returned'[Len(returned')] = "NoMatch"
    /\ currentState' = currentState
    /\ currentSequence' = currentSequence
    /\ currentMatches' = currentMatches

\* C19 as stated: for every index, a modifier-only press given to a machine
\* in state NoMatch returns NoMatch and leaves the state, the buffered
\* sequence and the match set as they were.
C19_AsStated == [][IsIdleModifierPress => StaysIdle]_vars

IsModalKeyDown == modal # <<>> /\ regTyped' # regTyped

\* C13: the registration dialog hands a list to the store only on a keydown
\* for which RegisterMachine.advance returned FinishedRegistering and the
\* conflict lookup returned nothing, and that list is the current one with
\* the new binding appended; when the lookup returns one or more bindings
\* the store and the index are unchanged and the dialog stays open; a
\* dialog that is closed otherwise adds nothing.
C13_AddOnlyWhenFinishedWithoutConflict ==
    [][modal # <<>> =>
        LET found == conflicts(trie, regSequence')
        IN /\ Len(saves') > Len(saves) =>
                 /\ IsModalKeyDown
                 /\ regState' = "FinishedRegistering"
                 /\ Len(found) = 0
                 /\ saves' = Append(saves, settings.hotkeys
                                            \o <<KeyMap(modal[1], regSequence')>>)
           /\ (IsModalKeyDown /\ regState' = "FinishedRegistering" /\ Len(found) >= 1) =>
                 /\ UNCHANGED <<settings, hotkeys, trie, saves>>
                 /\ modal' = modal
           /\ (modal' = <<>> /\ ~IsModalKeyDown) => saves' = saves]_vars

C13_Witness ==
    /\ lastOp = "added"
    /\ modal = <<>>
    /\ regReturned = <<"FirstKey", "PendingAddition", "FinishedRegistering">>
    /\ settings.hotkeys = <<FocusLeft, FocusBottom>>
    /\ saves = << <<FocusLeft, FocusBottom, KeyMap("app:reload", <<KeyH>>)>> >>

\* C14: a save that fails leaves settings.hotkeys, the index and the
\* MatchMachine as they were; neither does issuing a save change them: the
\* list is replaced only by the completion of a successful save, with the
\* list of that save, and the index only then.
C14_FailedSaveChangesNothing ==
    [][/\ (lastOp' = "saveFailed" /\ saves' # saves) =>
            UNCHANGED <<settings, hotkeys, trie,
                        currentState, currentSequence, currentMatches>>
       /\ settings' # settings =>
            /\ lastOp' \in {"saved", "setKeymapRaised"}
            /\ Len(saves') = Len(saves) - 1
            /\ settings'.hotkeys \in Range(saves)
       /\ trie' # trie => lastOp' = "saved" /\ settings'.hotkeys \in Range(saves)]_vars

C14_Witness ==
    /\ lastOp = "saveFailed"
    /\ saves = <<>>
    /\ issued = 1
    /\ settings.hotkeys = <<FocusLeft, FocusBottom>>
    /\ hotkeys = <<FocusLeft, FocusBottom>>

\* C15: once loadSavedSettings has returned, whatever loadData gave,
\* settings holds a binding list and a match handler exists whose index is
\* built from settings.hotkeys, and onload does not raise.
C15_LoadAlwaysYieldsHandler ==
    onload # "loadSavedSettings" =>
        /\ settings # Undefined
        /\ matchHandler
        /\ trie = TrieFrom(settings.hotkeys).trie
        /\ onload # "raised"

\* C20: in every state from the end of loadSavedSettings on, a MatchHandler
\* exists and its index is the one Trie.from builds from the current
\* settings.hotkeys.
C20_IndexBuiltFromSettings ==
    onload # "loadSavedSettings" =>
        LET built == TrieFrom(settings.hotkeys)
        IN /\ matchHandler
           /\ ~built.threw
           /\ trie = built.trie
           /\ hotkeys = settings.hotkeys

\* ---------------------------------------------------------------- claims on registration
RegNonPending == {"NoKeys", "FirstKey", "AddedKeys", "ContinuingMatching", "DeletedKey"}
RegPending == {"PendingAddition", "PendingDeletion"}
IsRegisterAdvance == Len(regTyped') = Len(regTyped) + 1
RegEvent == regTyped'[Len(regTyped')]
IsFinishSignal(event) == event.key = "Enter" /\ event.ctrl /\ event.alt

\* C21: from a non-pending state a SpecialKey press is appended as the last
\* element of the buffer, the state becomes PendingAddition exactly when the
\* key is Enter and PendingDeletion exactly when it is Backspace, and no
\* press other than Backspace enters PendingDeletion.
C21_SpecialKeyOpensPending ==
    [][(IsRegisterAdvance /\ regState \in RegNonPending) =>
         /\ classification(RegEvent) = "SpecialKey" =>
               /\ regSequence' = Append(regSequence, RegEvent)
               /\ regState' = "PendingAddition" <=> RegEvent.key = "Enter"
               /\ regState' = "PendingDeletion" <=> RegEvent.key = "Backspace"
         /\ regState' = "PendingDeletion" => RegEvent.key = "Backspace"]_vars

\* C22: from a pending state a press with key Enter and both ctrl and alt
\* removes the last element of the buffer, keeps the earlier presses and
\* moves to FinishedRegistering; advance returns FinishedRegistering in no
\* other circumstance.
C22_FinishSignal ==
    [][IsRegisterAdvance =>
         /\ (regState \in RegPending /\ IsFinishSignal(RegEvent)) =>
               /\ regState' = "FinishedRegistering"
               /\ regSequence' = Pop(regSequence)
               /\ Len(regSequence') = Len(regSequence) - 1
         /\ regState' = "FinishedRegistering" =>
               regState \in RegPending /\ IsFinishSignal(RegEvent)]_vars

C22_Witness ==
    /\ regTyped = <<KeyH, KeyH, Backspace, CtrlAltEnter>>
    /\ regState = "FinishedRegistering"
    /\ regSequence = <<KeyH, KeyH>>

\* C23: from a pending state every press whose key is neither Enter nor
\* Backspace leaves the state and the buffer as they are.
C23_PendingHeld ==
    [][(IsRegisterAdvance /\ regState \in RegPending
        /\ RegEvent.key \notin {"Enter", "Backspace"}) =>
          /\ regState' = regState
          /\ regSequence' = regSequence]_vars

C23_Witness ==
    /\ regTyped = <<KeyH, Enter, ControlDown, KeyH, Escape>>
    /\ regState = "PendingAddition"
    /\ regSequence = <<KeyH, Enter>>

\* C24: from PendingDeletion a Backspace press removes the pending key and
\* the press before it (the buffer becomes empty when it held fewer than two
\* presses), keeps the earlier presses in order and moves to DeletedKey.
C24_ConfirmedDeletion ==
    [][(IsRegisterAdvance /\ regState = "PendingDeletion"
        /\ RegEvent.key = "Backspace") =>
          /\ regState' = "DeletedKey"
          /\ regSequence' =
                IF Len(regSequence) < 2 THEN <<>>
                ELSE SubSeq(regSequence, 1, Len(regSequence) - 2)]_vars

C24_Witness ==
    /\ regTyped = <<KeyH, Enter, Enter, Backspace, Backspace>>
    /\ regState = "DeletedKey"
    /\ regSequence = <<KeyH>>

\* C25: from a pending state a press with key Enter that does not have both
\* ctrl and alt set moves to AddedKeys and leaves the buffer as it was.
C25_LiteralConfirmed ==
    [][(IsRegisterAdvance /\ regState \in RegPending
        /\ RegEvent.key = "Enter" /\ ~IsFinishSignal(RegEvent)) =>
          /\ regState' = "AddedKeys"
          /\ regSequence' = regSequence]_vars

C25_Witness ==
    /\ regTyped = <<KeyH, Backspace, CtrlEnter>>
    /\ regState = "AddedKeys"
    /\ regSequence = <<KeyH, Backspace>>

\* C26: from PendingAddition a Backspace press removes only the pending
\* Enter from the buffer and moves to ContinuingMatching.
C26_EnterDiscardedOnly ==
    [][(IsRegisterAdvance /\ regState = "PendingAddition"
        /\ RegEvent.key = "Backspace") =>
          /\ regState' = "ContinuingMatching"
          /\ regSequence # <<>>
          /\ regSequence[Len(regSequence)].key = "Enter"
          /\ regSequence' = SubSeq(regSequence, 1, Len(regSequence) - 1)]_vars

C26_Witness ==
    /\ regTyped = <<KeyH, KeyH, CtrlEnter, Backspace>>
    /\ regState = "ContinuingMatching"
    /\ regSequence = <<KeyH, KeyH>>

\* C27: in FinishedRegistering a further press is processed as it would be
\* in ContinuingMatching with the same buffer: same resulting state, same
\* resulting buffer; the accepted buffer is not cleared.
C27_PressAfterFinished ==
    [][(IsRegisterAdvance /\ regState = "FinishedRegistering") =>
          LET continued == registerKey([currentState |-> "ContinuingMatching",
                                        currentSequence |-> regSequence], RegEvent)
          IN /\ regState' = continued.currentState
             /\ regSequence' = continued.currentSequence
             /\ IsPrefix(regSequence, regSequence')]_vars

C27_Witness ==
    /\ regTyped = <<KeyH, Enter, CtrlAltEnter, KeyH>>
    /\ regReturned = <<"FirstKey", "PendingAddition", "FinishedRegistering",
                       "AddedKeys">>
    /\ regSequence = <<KeyH, KeyH>>

\* C28: from a non-pending state a NormalKey press is appended as the last
\* element of the buffer, and the state becomes FirstKey exactly when the
\* buffer then holds one press, AddedKeys otherwise.
C28_NormalKeyAppended ==
    [][(IsRegisterAdvance /\ regState \in RegNonPending
        /\ classification(RegEvent) = "NormalKey") =>
          /\ regSequence' = Append(regSequence, RegEvent)
          /\ regState' = "FirstKey" <=> Len(regSequence') = 1
          /\ regState' = "AddedKeys" <=> Len(regSequence') # 1]_vars

C28_Witness ==
    /\ regTyped = <<KeyH, Backspace, Backspace, KeyH, KeyH>>
    /\ regReturned = <<"FirstKey", "PendingDeletion", "DeletedKey", "FirstKey",
                       "AddedKeys">>
    /\ regSequence = <<KeyH, KeyH>>

\* C29: from a non-pending state a modifier-only press leaves the buffer
\* unchanged and moves to ContinuingMatching.
C29_ModifierContinues ==
    [][(IsRegisterAdvance /\ regState \in RegNonPending
        /\ classification(RegEvent) = "NoKey") =>
          /\ regState' = "ContinuingMatching"
          /\ regSequence' = regSequence]_vars

C29_Witness ==
    /\ regTyped = <<KeyH, KeyH, ControlDown>>
    /\ regReturned = <<"FirstKey", "AddedKeys", "ContinuingMatching">>
    /\ regSequence = <<KeyH, KeyH>>

\* ---------------------------------------------------------------- claims on the index
\* Press sequences looked up: every prefix of a bound sequence, each of them
\* followed by an unbound key, and every prefix of what has been typed.
LookupSequences ==
    LET bound == UNION {{SubSeq(hotkeys[i].sequence, 1, k) :
                            k \in 0..Len(hotkeys[i].sequence)} :
                        i \in 1..Len(hotkeys)}
    IN bound \cup {Append(s, KeyX) : s \in bound}
             \cup {SubSeq(typed, 1, k) : k \in 0..Len(typed)}

HavingPrefix(s) == {i \in 1..Len(hotkeys) : IsPrefix(s, hotkeys[i].sequence)}

\* C30: in an index built without error from a list, bestMatch(s) returns a
\* node exactly when s is a prefix of the sequence of some binding of the
\* list, and the leafValues of that node are exactly the bindings of the
\* list whose sequence has s as a prefix, each once.
C30_LookupFindsBindingsByPrefix ==
    pc # "threw" =>
        \A s \in LookupSequences :
            LET best == bestMatch(trie, s)
            IN /\ best # <<>> <=> HavingPrefix(s) # {}
               /\ best # <<>> =>
                     LET values == leafValues(trie, best[1])
                     IN /\ Len(values) = Cardinality(HavingPrefix(s))
                        /\ Range(values) = {hotkeys[i] : i \in HavingPrefix(s)}

\* ---------------------------------------------------------------- claims on termination
IsMatchAdvance == pc = "matching" /\ Len(typed') = Len(typed) + 1

\* C31: every call of MatchMachine.advance and of RegisterMachine.advance
\* returns a state after at most one re-entry of itself; it re-enters exactly
\* when the state before the call is SuccessMatch or InvalidMatch
\* (MatchMachine) or FinishedRegistering (RegisterMachine), and the call
\* entered again does not re-enter.
C31_SingleStepCompletion ==
    [][/\ IsMatchAdvance =>
            LET entries == advanceEntries(trie, machine, typed'[Len(typed')])
            IN /\ Len(entries) <= 2
               /\ Len(entries) = 2 <=> currentState \in Terminal
               /\ entries[Len(entries)] \notin Terminal
               /\ returned'[Len(returned')] \in MatchStates
               /\ returned'[Len(returned')] = currentState'
       /\ IsRegisterAdvance =>
            LET entries == registerAdvanceEntries(registerMachine, RegEvent)
            IN /\ Len(entries) <= 2
               /\ Len(entries) = 2 <=> regState = "FinishedRegistering"
               /\ entries[Len(entries)] # "FinishedRegistering"
               /\ regReturned'[Len(regReturned')] \in RegistrationState
               /\ regReturned'[Len(regReturned')] = regState']_vars

C31_Witness ==
    /\ pc = "matching"
    /\ typed = <<CtrlB, KeyX, CtrlB, KeyX>>
    /\ returned = <<"StartedMatch", "InvalidMatch", "StartedMatch", "InvalidMatch">>
    /\ advanceEntries(trie, [machine EXCEPT !.currentState = returned[2]], typed[3])
          = <<"InvalidMatch", "NoMatch">>

\* ---------------------------------------------------------------- claims on the store
\* The binding is matchable: its sequence, given to a fresh MatchMachine
\* over the index, ends in SuccessMatch with its commandID.
Matchable(t, keymap) ==
    LET run == Behaviour(t, NewMatchMachine, keymap.sequence, 1)
    IN /\ run # <<>>
       /\ run[Len(run)] = [state |-> "SuccessMatch", commandID |-> keymap.commandID]

\* No binding's sequence is a prefix of another's.
PrefixFree(list) ==
    \A i, j \in 1..Len(list) :
        i # j => ~IsPrefix(list[i].sequence, list[j].sequence)

\* A sequence the RegisterMachine can hand over: it never buffers a
\* modifier-only press.
Registrable(keyPresses) ==
    /\ keyPresses # <<>>
    /\ \A k \in 1..Len(keyPresses) : classification(keyPresses[k]) # "NoKey"

\* The lists that the finish step of a registration of keymap hands to
\* persistKeymaps when the handler's index is the one built from list.
Registered(list, keymap) ==
    finishedRegistering(TrieFrom(list).trie, list, keymap.commandID,
                        keymap.sequence).added

\* C32: when the index was built from a list in which no sequence is a
\* prefix of another and whose bindings were all matchable, and a
\* registration passed the conflict check of that index and was committed,
\* every binding of the new list is matchable over the index rebuilt from
\* it.
C32_BindingsStayMatchable ==
    (pc = "matching" /\ hotkeys # <<>>) =>
        LET before == SubSeq(hotkeys, 1, Len(hotkeys) - 1)
            new == hotkeys[Len(hotkeys)]
        IN (/\ PrefixFree(before)
            /\ ~TrieFrom(before).threw
            /\ \A i \in 1..Len(before) : Matchable(TrieFrom(before).trie, before[i])
            /\ Registrable(new.sequence)
            /\ Registered(before, new) = <<hotkeys>>) =>
               \A i \in 1..Len(hotkeys) : Matchable(trie, hotkeys[i])

\* ---------------------------------------------------------------- claims on the machine's state
\* C34: whenever advance has returned SuccessMatch, allMatches() holds
\* exactly one binding, fullMatch() returns that binding and not null, the
\* binding is one of the list and its sequence is the buffered sequence.
C34_SuccessNeverAmbiguous ==
    (pc = "matching" /\ currentState = "SuccessMatch") =>
        /\ Len(allMatches(machine)) = 1
        /\ fullMatch(machine) \notin {Null, Undefined}
        /\ fullMatch(machine) = allMatches(machine)[1]
        /\ fullMatch(machine) \in Range(hotkeys)
        /\ fullMatch(machine).sequence = currentSequence

C34_Witness ==
    /\ pc = "matching"
    /\ hotkeys = <<FocusLeft, ThreePresses>>
    /\ typed = <<CtrlB, KeyH, KeyJ>>
    /\ currentState = "SuccessMatch"
    /\ allMatches(machine) = <<ThreePresses>>
    /\ fullMatch(machine) = ThreePresses

\* ---------------------------------------------------------------- claims on registration in the store
NoEmptyBinding(list) ==
    \A i \in 1..Len(list) : list[i] # Undefined => list[i].sequence # <<>>

\* C35: no list handed to the store or held by it has a binding with an
\* empty sequence; whatever the store holds, the conflict lookup of the
\* empty sequence returns something, so that a registration that finishes
\* with an empty buffer adds nothing and leaves the dialog open.
C35_NoEmptyBindingCommitted ==
    /\ \A k \in 1..Len(saves) : NoEmptyBinding(saves[k])
    /\ NoEmptyBinding(settings.hotkeys)
    /\ Len(conflicts(trie, <<>>)) >= 1
    /\ \A commandId \in CommandPool :
          finishedRegistering(trie, settings.hotkeys, commandId, <<>>)
             = [added |-> <<>>, closed |-> FALSE]
    /\ (lastOp = "added" /\ modal = <<>>) => regSequence # <<>>

C35_Witness ==
    /\ settings.hotkeys = <<>>
    /\ modal # <<>>
    /\ regTyped = <<Enter, CtrlAltEnter>>
    /\ regState = "FinishedRegistering"
    /\ presses(registerMachine) = <<>>
    /\ lastOp = "conflict"
    /\ saves = <<>>

\* C36: in every state of the MatchMachine the state and the buffered
\* sequence agree.  NoMatch: the sequence and the match set are empty.
\* StartedMatch, RetainedMatch, ImprovedMatch: the sequence is non-empty and
\* a strict prefix of a binding's sequence, and bestMatch of it is a node
\* with children.  SuccessMatch: it is the sequence of a binding and
\* bestMatch of it is a leaf.  InvalidMatch: it is a prefix of no binding's
\* sequence and bestMatch of it is null.
C36_StateAndBufferAgree ==
    pc = "matching" =>
        LET best == bestMatch(trie, currentSequence)
        IN /\ currentState = "NoMatch" =>
                 currentSequence = <<>> /\ allMatches(machine) = <<>>
           /\ currentState \in InProgress =>
                 /\ currentSequence # <<>>
                 /\ \E i \in 1..Len(hotkeys) :
                       /\ IsPrefix(currentSequence, hotkeys[i].sequence)
                       /\ currentSequence # hotkeys[i].sequence
                 /\ best # <<>>
                 /\ ~isLeaf(trie, best[1])
           /\ currentState = "SuccessMatch" =>
                 /\ \E i \in 1..Len(hotkeys) : currentSequence = hotkeys[i].sequence
                 /\ best # <<>>
                 /\ isLeaf(trie, best[1])
           /\ currentState = "InvalidMatch" =>
                 /\ \A i \in 1..Len(hotkeys) :
                       ~IsPrefix(currentSequence, hotkeys[i].sequence)
                 /\ best = <<>>

C36_Witness ==
    /\ pc = "matching"
    /\ hotkeys = <<ThreePresses, WithModifier>>
    /\ typed = <<CtrlB, KeyH, ShiftDown, KeyX>>
    /\ returned = <<"StartedMatch", "ImprovedMatch", "RetainedMatch", "InvalidMatch">>
    /\ currentSequence = <<CtrlB, KeyH, KeyX>>

\* ---------------------------------------------------------------- claims on the registration buffer
\* The advance call that opened the pending state the machine is in.
PendingSince ==
    CHOOSE k \in 1..Len(regTyped) :
        /\ k = 1 \/ regReturned[k - 1] \notin RegPending
        /\ \A j \in k..Len(regTyped) : regReturned[j] \in RegPending

\* C37: in PendingAddition the buffer is non-empty and its last press has
\* key Enter; in PendingDeletion the buffer is non-empty and its last press
\* is a special key; in both the last press is the one that opened the
\* pending state.
C37_PendingHasItsKey ==
    regState \in RegPending =>
        /\ presses(registerMachine) # <<>>
        /\ LET last == regSequence[Len(regSequence)]
           IN /\ regState = "PendingAddition" => last.key = "Enter"
              /\ regState = "PendingDeletion" =>
                    classification(last) = "SpecialKey" /\ last.key # "Enter"
              /\ last = regTyped[PendingSince]

C37_Witness ==
    /\ regTyped = <<KeyH, Escape, KeyH, ControlDown>>
    /\ regState = "PendingDeletion"
    /\ regSequence = <<KeyH, Escape>>
    /\ PendingSince = 2

\* ---------------------------------------------------------------- claims on a rejected insert
\* What a caller can see of the node found for a sequence.
Observed(t, s) ==
    LET best == bestMatch(t, s)
    IN IF best = <<>>
       THEN [found |-> FALSE, leaf |-> FALSE, values |-> <<>>]
       ELSE [found |-> TRUE, leaf |-> isLeaf(t, best[1]),
             values |-> leafValues(t, best[1])]

\* C38: when Trie.add raises 'Duplicate keymap' the index is as it was
\* before the call: for every sequence, bestMatch is null or not as before,
\* the node is a leaf or not as before and its leafValues are the same, and
\* no node has been created.
C38_RejectedInsertChangesNothing ==
    pc = "threw" =>
        LET before == TrieFrom(Pop(hotkeys))
        IN /\ ~before.threw
           /\ DOMAIN trie = DOMAIN before.trie
           /\ \A s \in LookupSequences : Observed(trie, s) = Observed(before.trie, s)

C38_Witness ==
    /\ pc = "threw"
    /\ hotkeys = <<ThreePresses, LeaderAlone>>
    /\ Observed(trie, <<CtrlB>>) =
          [found |-> TRUE, leaf |-> FALSE, values |-> <<ThreePresses>>]

\* ---------------------------------------------------------------- claims on the length of a run
\* The number of presses of the longest binding.
RECURSIVE LongestFrom(_)
LongestFrom(i) ==
    IF i > Len(hotkeys) THEN 0
    ELSE LET rest == LongestFrom(i + 1)
         IN IF Len(hotkeys[i].sequence) > rest THEN Len(hotkeys[i].sequence) ELSE rest

LongestBinding == LongestFrom(1)

\* The presses after the i-th up to the j-th that are not modifier-only.
NonModifierBetween(i, j) ==
    Cardinality({k \in (i + 1)..j : classification(typed[k]) # "NoKey"})

\* C39: with n the number of presses of the longest binding, once advance
\* has returned StartedMatch it returns SuccessMatch or InvalidMatch within
\* the next n - 1 presses that are not modifier-only; until then the run
\* stays in StartedMatch, RetainedMatch or ImprovedMatch.
C39_BoundedRun ==
    pc = "matching" =>
        \A i \in 1..Len(typed) : \A j \in (i + 1)..Len(typed) :
            returned[i] = "StartedMatch" =>
                /\ NonModifierBetween(i, j) >= LongestBinding - 1 =>
                      \E k \in (i + 1)..j : returned[k] \in Terminal
                /\ (\A k \in (i + 1)..j : returned[k] \notin Terminal) =>
                      \A k \in (i + 1)..j : returned[k] \in InProgress

C39_Witness ==
    /\ pc = "matching"
    /\ hotkeys = <<ThreePresses, FocusBottom>>
    /\ LongestBinding = 3
    /\ typed = <<CtrlB, ShiftDown, KeyH, KeyJ>>
    /\ returned = <<"StartedMatch", "RetainedMatch", "ImprovedMatch", "SuccessMatch">>

\* ---------------------------------------------------------------- claims on descriptors
\* The KeyPress of a keyboard event with the key and the modifiers of the
\* descriptor.
EventLike(binding) ==
    fromEvent(KeyboardEvent(binding.key,
                            "Shift" \in binding.modifiers,
                            "Alt" \in binding.modifiers,
                            "Ctrl" \in binding.modifiers,
                            "Meta" \in binding.modifiers))

\* C40: fromCustom(binding) has the key of the descriptor and its shift,
\* ctrl, alt and meta flags are true exactly when the modifiers hold Shift,
\* Ctrl, Alt and Meta, so that it serializes as the KeyPress of a keyboard
\* event with the same key and the same modifiers held.
C40_FromCustomMatchesEvent ==
    pressIn # Undefined =>
        /\ pressIn.key = custom.key
        /\ pressIn.shift <=> ("Shift" \in custom.modifiers)
        /\ pressIn.ctrl <=> ("Ctrl" \in custom.modifiers)
        /\ pressIn.alt <=> ("Alt" \in custom.modifiers)
        /\ pressIn.meta <=> ("Meta" \in custom.modifiers)
        /\ pressHash # "" => pressHash = serialize(EventLike(custom))
====
